---- MODULE Spec2Model ----
(***************************************************************************)
(* Model of the py-xiaozhi voice client: the controller's task scheduler   *)
(* (application.py), the playback queue (audio_codec.py), the websocket    *)
(* session protocol (websocket_protocol.py) and the device state machine   *)
(* (application.py).                                                       *)
(*                                                                         *)
(* Specifications:                                                         *)
(*   SpecSched  the scheduler at lock granularity, abstract tasks          *)
(*   SpecQueue  the playback queue at queue-operation granularity          *)
(*   Spec       the controller and the protocol, one action per handler    *)
(*              or per await/blocking point of a handler                   *)
(*   SpecCodec  the AudioCodec's construction and its stream lock          *)
(*   SpecInput  the microphone path: trigger thread, _handle_input_audio   *)
(*              and send_audio                                             *)
(*   SpecAbort  abort_speaking at statement granularity, called by the UI  *)
(*              thread and by the controller loop                          *)
(*   SpecToggleAbort  one press of the chat button while SPEAKING, with   *)
(*              the server's tts stop                                      *)
(***************************************************************************)
EXTENDS Integers, Sequences, FiniteSets, TLC

\* ------------------------------------------------------------------ bounds
\* tasks ever scheduled in SpecSched
MaxTasks == 4
\* threads other than the controller loop that call schedule() in SpecSched
NumProducers == 2
\* capacity of the playback queue (int(10 * 1000 / FRAME_DURATION) scaled down)
QueueCap == 6
\* frames the server ever sends in SpecQueue
MaxFrames == 8
\* largest AudioConfig.FRAME_DURATION (ms) an AudioCodec is built with in
\* SpecCodec
MaxFrameDuration == 120
\* send_audio coroutines waiting on the protocol loop at a time in SpecInput
MaxAudioSends == 2
\* events of the environment in Spec: user and wake-word requests, server
\* messages, transport faults and expired waits
MaxEvents == 4
\* events of the environment in SpecSpeaking
MaxSpeakEvents == 3
\* how many of the events may be transport faults or expired waits
MaxFaults == 2
\* the same in SpecSpeaking
MaxSpeakFaults == 2

VARIABLES
    \* --- scheduler (Application.main_tasks, events[SCHEDULE_EVENT]) ---
    main_tasks,      \* self.main_tasks: pending callbacks, in append order
    sched_event,     \* self.events[EventType.SCHEDULE_EVENT].is_set()
    loop_pc,         \* position of _main_loop / _process_scheduled_tasks:
                     \* "poll" at SCHEDULE_EVENT, "poll_out" at
                     \* AUDIO_OUTPUT_READY_EVENT, "run" in a task list, ...
    tasks,           \* the local copy `tasks` of _process_scheduled_tasks
    prod_pc,         \* position of each thread inside schedule()
    next_id,         \* next task identity to hand out (enqueue order)
    executed,        \* history: task identities in the order they were run
    raised,          \* history: the tasks that raised
    sched_wait,      \* history, per task: "none" before it is appended, "half"
                     \* between the append and the set of its schedule() call,
                     \* "half_run" if it was run in between, "0".."3" for the
                     \* loop ticks begun since its schedule() call returned
                     \* while it waits, "done" once it has been run
    \* --- playback queue (AudioCodec.audio_decode_queue) ---
    audio_decode_queue, \* queue.Queue(maxsize=max_queue_size), oldest first
    wr_pc,           \* position of the protocol thread inside write_audio
    wr_data,         \* the frame write_audio is writing
    wr_start,        \* history: queue contents when write_audio was entered
    wr_clean,        \* history: no consumer step since write_audio was entered
    rd_pc,           \* position of the controller thread: play_audio / clear
    processed_count, \* play_audio's processed_count
    next_frame,      \* next frame number the server sends
    consumed,        \* history: some frame was ever taken by play/clear
    \* --- controller (Application) ---
    device_state,    \* self.device_state
    keep_listening,  \* self.keep_listening
    aborted,         \* self.aborted
    is_tts_playing,  \* self.is_tts_playing
    wake_word_detector, \* self.wake_word_detector: "none" when there is none,
                     \* "running", or not running: "stopped" when its next
                     \* start() will succeed, "broken" when it will fail
    wwd_paused,      \* self.wake_word_detector.paused
    attempts,        \* delayed_state_change's local `attempts`
    wait_att,        \* the open_audio_channel future _start_listening_impl waits on
    audio_output_event, \* self.events[AUDIO_OUTPUT_READY_EVENT].is_set()
    workers,         \* the ad-hoc worker threads in flight
    is_input_paused, \* self.audio_codec._is_input_paused
    abort_pc,        \* where the UI thread ("ui") and the controller loop
                     \* ("main") are in abort_speaking: "idle" outside it,
                     \* "passed" after `if self.aborted` was found false
    \* --- protocol (WebsocketProtocol) and its event loop ---
    websocket,       \* self.websocket: a connection, or 0 for None
    connected,       \* self.connected
    hello_received,  \* self.hello_received: an Event (named by its connect), 0 for None
    ev_set,          \* the Events that are set
    open_conns,      \* transport connections that are open
    handlers,        \* connections whose _message_handler task is running
    conn_attempts,   \* connect()/open_audio_channel() coroutines, with their outcome
    next_conn,       \* next connection identity
    sends,           \* send_text coroutines submitted to the loop, not yet run
    closes,          \* close_audio_channel coroutines submitted, not yet run
    \* --- environment budgets ---
    events_left,     \* events the environment may still produce
    faults_left,     \* faults among them
    \* --- observation ---
    last,            \* the kind of the step just taken, where a property asks
    ab,              \* abort bookkeeping since aborted was last reset
    opened_cb,       \* audio-channel-opened callbacks per connection
    scen,            \* progress of the start/tts-start/tts-stop scenario, -1 when left
    scen_trace,      \* device states entered while the scenario is followed
    watch,           \* "drain": a tts stop was handled in SPEAKING with nothing
                     \* else pending and at most one playback batch queued;
                     \* "toggle": a toggle was handled in LISTENING with nothing
                     \* else pending; "abort": an abort for WAKE_WORD_DETECTED
                     \* began in SPEAKING with keep_listening set, the
                     \* channel open and nothing else pending, "retoggle"
                     \* once its thread has asked for the toggle; "-"
                     \* otherwise, and as soon as anything comes from outside
    \* --- audio codec (AudioCodec) ---
    frame_duration,  \* AudioConfig.FRAME_DURATION, in ms
    max_queue_size,  \* audio_decode_queue.maxsize (0 before __init__)
    stream_lock,     \* holder of self._stream_lock: "free" or a thread
    stream_pc,       \* where the controller loop ("main") and the playback
                     \* trigger thread ("trigger") are in the codec: "new"
                     \* before __init__, "idle", "write" in play_audio's
                     \* output_stream.write, "reinit_in"/"reinit_out" in
                     \* _reinitialize_stream of the input/output stream
    \* --- microphone path ---
    audio_input_event, \* self.events[AUDIO_INPUT_READY_EVENT].is_set()
    audio_sends      \* send_audio coroutines submitted to the loop, not yet run

schedVars == <<main_tasks, sched_event, loop_pc, tasks, prod_pc, next_id,
               executed, raised, sched_wait>>
queueVars == <<audio_decode_queue, wr_pc, wr_data, wr_start, wr_clean, rd_pc,
               processed_count, next_frame, consumed>>
appVars == <<device_state, keep_listening, aborted, is_tts_playing,
             wake_word_detector, wwd_paused, attempts, wait_att,
             audio_output_event, workers, is_input_paused, abort_pc>>
protoVars == <<websocket, connected, hello_received, ev_set, open_conns,
               handlers, conn_attempts, next_conn, sends, closes>>
envVars == <<events_left, faults_left>>
obsVars == <<last, ab, opened_cb, scen, scen_trace, watch>>
\* variables only SpecSched moves / only SpecQueue moves
schedOnly == <<prod_pc, next_id, executed, raised, sched_wait>>
queueOnly == <<wr_pc, wr_data, wr_start, wr_clean, rd_pc, processed_count,
               next_frame, consumed>>
codecVars == <<frame_duration, max_queue_size, stream_lock, stream_pc>>
inputVars == <<audio_input_event, audio_sends>>
vars == <<schedVars, queueVars, appVars, protoVars, envVars, obsVars,
          codecVars, inputVars>>
ctlVars == <<appVars, protoVars, envVars, obsVars, codecVars, inputVars>>

Producers == 1..NumProducers

\* ================================================================ scheduler
SchedInit ==
    /\ main_tasks = <<>>
    /\ sched_event = FALSE
    /\ loop_pc = "poll"
    /\ tasks = <<>>
    /\ prod_pc = [p \in Producers |-> "idle"]
    /\ next_id = 1
    /\ executed = <<>>
    /\ raised = {}
    /\ sched_wait = [t \in 1..MaxTasks |-> "none"]

\* schedule(): `with self.mutex: self.main_tasks.append(callback)`
schedule_append(list, callback) == Append(list, callback)

\* a plausible slip: no try/except, a raising task ends the for loop
tasks_after_unguarded(ts, didRaise) == IF didRaise THEN <<>> ELSE Tail(ts)

\* _process_scheduled_tasks: the for loop goes on to the next task whether or
\* not task() raised (try/except Exception around each call)
tasks_after(ts, didRaise) == Tail(ts)

\* schedule() called by thread p, first half: append under the mutex
ScheduleAppend(p) ==
    /\ prod_pc[p] = "idle"
    /\ next_id <= MaxTasks
    /\ main_tasks' = schedule_append(main_tasks, next_id)
    /\ next_id' = next_id + 1
    /\ prod_pc' = [prod_pc EXCEPT ![p] = "set"]
    /\ sched_wait' = [sched_wait EXCEPT ![next_id] = "half"]
    /\ UNCHANGED <<sched_event, loop_pc, tasks, executed, raised>>
    /\ UNCHANGED <<queueVars, ctlVars>>

\* schedule() called by thread p, second half: events[SCHEDULE_EVENT].set()
ScheduleSet(p) ==
    /\ prod_pc[p] = "set"
    /\ sched_event' = TRUE
    /\ prod_pc' = [prod_pc EXCEPT ![p] = "idle"]
    /\ \E t \in 1..MaxTasks :
         /\ sched_wait[t] \in {"half", "half_run"}
         /\ sched_wait' = [sched_wait EXCEPT ![t] = IF @ = "half" THEN "0"
                                                   ELSE "done"]
    /\ UNCHANGED <<main_tasks, loop_pc, tasks, next_id, executed, raised>>
    /\ UNCHANGED <<queueVars, ctlVars>>

\* one more loop tick has begun for the tasks whose schedule() call returned
Older(w) ==
    [t \in DOMAIN w |-> CASE w[t] = "0" -> "1"
                           [] w[t] = "1" -> "2"
                           [] w[t] = "2" -> "3"
                           [] OTHER -> w[t]]

\* _main_loop: `if event.is_set():` found true for SCHEDULE_EVENT
LoopPoll ==
    /\ loop_pc = "poll"
    /\ sched_event
    /\ loop_pc' = "clear"
    /\ sched_wait' = Older(sched_wait)
    /\ UNCHANGED <<main_tasks, sched_event, tasks, prod_pc, next_id, executed,
                   raised>>
    /\ UNCHANGED <<queueVars, ctlVars>>

\* _main_loop: event.clear()
LoopClear ==
    /\ loop_pc = "clear"
    /\ sched_event' = FALSE
    /\ loop_pc' = "copy"
    /\ UNCHANGED <<main_tasks, tasks, prod_pc, next_id, executed, raised,
                   sched_wait>>
    /\ UNCHANGED <<queueVars, ctlVars>>

\* _process_scheduled_tasks: copy and clear the list under the mutex
LoopCopy ==
    /\ loop_pc = "copy"
    /\ tasks' = main_tasks
    /\ main_tasks' = <<>>
    /\ loop_pc' = "run"
    /\ UNCHANGED <<sched_event, prod_pc, next_id, executed, raised, sched_wait>>
    /\ UNCHANGED <<queueVars, ctlVars>>

\* _process_scheduled_tasks: one iteration of `for task in tasks`; the task
\* may raise, and may itself call schedule() (append and set, on this thread)
LoopRunTask ==
    /\ loop_pc = "run"
    /\ tasks # <<>>
    /\ \E didRaise \in BOOLEAN, nested \in BOOLEAN :
        /\ executed' = Append(executed, Head(tasks))
        /\ raised' = IF didRaise THEN raised \cup {Head(tasks)} ELSE raised
        /\ tasks' = tasks_after(tasks, didRaise)
        /\ IF nested /\ next_id <= MaxTasks
             THEN /\ main_tasks' = schedule_append(main_tasks, next_id)
                  /\ next_id' = next_id + 1
                  /\ sched_event' = TRUE
                  /\ sched_wait' = [sched_wait EXCEPT
                       ![Head(tasks)] = IF @ = "half" THEN "half_run"
                                        ELSE "done",
                       ![next_id] = "0"]
             ELSE /\ sched_wait' = [sched_wait EXCEPT
                       ![Head(tasks)] = IF @ = "half" THEN "half_run"
                                        ELSE "done"]
                  /\ UNCHANGED <<main_tasks, next_id, sched_event>>
    /\ UNCHANGED <<loop_pc, prod_pc>>
    /\ UNCHANGED <<queueVars, ctlVars>>

\* a plausible slip: the flag is cleared after the tasks, not before
LoopDone_clearing ==
    /\ loop_pc = "run"
    /\ tasks = <<>>
    /\ loop_pc' = "poll"
    /\ sched_event' = FALSE
    /\ UNCHANGED <<main_tasks, tasks, prod_pc, next_id, executed, raised,
                   sched_wait>>
    /\ UNCHANGED <<queueVars, ctlVars>>

\* _process_scheduled_tasks returns, the loop sleeps and polls again
LoopDone ==
    /\ loop_pc = "run"
    /\ tasks = <<>>
    /\ loop_pc' = "poll"
    /\ UNCHANGED <<main_tasks, sched_event, tasks, prod_pc, next_id, executed,
                   raised, sched_wait>>
    /\ UNCHANGED <<queueVars, ctlVars>>

\* _main_loop: `if event.is_set():` found false for SCHEDULE_EVENT; the loop
\* sleeps and polls again
LoopIdle ==
    /\ loop_pc = "poll"
    /\ ~sched_event
    /\ sched_wait' = Older(sched_wait)
    /\ UNCHANGED <<main_tasks, sched_event, loop_pc, tasks, prod_pc, next_id,
                   executed, raised>>
    /\ UNCHANGED <<queueVars, ctlVars>>

NextSched ==
    \/ \E p \in Producers : ScheduleAppend(p)
    \/ \E p \in Producers : ScheduleSet(p)
    \/ LoopPoll
    \/ LoopIdle
    \/ LoopClear
    \/ LoopCopy
    \/ LoopRunTask
    \/ LoopDone

\* ============================================================ playback queue
QueueInit ==
    /\ audio_decode_queue = <<>>
    /\ wr_pc = "idle"
    /\ wr_data = 0
    /\ wr_start = <<>>
    /\ wr_clean = TRUE
    /\ rd_pc = "idle"
    /\ processed_count = 0
    /\ next_frame = 1
    /\ consumed = FALSE

\* play_audio: max_process_per_call
max_process_per_call == 5

\* AudioCodec.__init__: max_queue_size = int(10 * 1000 / FRAME_DURATION); int()
\* of a positive quotient drops its fraction
queue_maxsize(fd) == (10 * 1000) \div fd

\* a plausible slip: an unbounded queue (maxsize not passed)
put_ok_unbounded(q) == TRUE

\* queue.Queue.put_nowait succeeds iff the queue is not full
put_ok(q) == Len(q) < QueueCap

\* write_audio, `except queue.Full` branch: get_nowait() removes the oldest
evict(q) == Tail(q)

\* write_audio entered with the next frame: put_nowait, or queue.Full caught
WriteAudioPut ==
    /\ wr_pc = "idle"
    /\ next_frame <= MaxFrames
    /\ wr_data' = next_frame
    /\ next_frame' = next_frame + 1
    /\ wr_start' = audio_decode_queue
    /\ wr_clean' = TRUE
    /\ IF put_ok(audio_decode_queue)
         THEN /\ audio_decode_queue' = Append(audio_decode_queue, next_frame)
              /\ wr_pc' = "idle"
         ELSE /\ wr_pc' = "full"
              /\ UNCHANGED audio_decode_queue
    /\ UNCHANGED <<rd_pc, processed_count, consumed>>
    /\ UNCHANGED <<schedVars, ctlVars>>

\* write_audio after queue.Full: get_nowait() (queue.Empty caught when the
\* consumer emptied the queue meanwhile)
WriteAudioEvict ==
    /\ wr_pc = "full"
    /\ IF audio_decode_queue # <<>>
         THEN audio_decode_queue' = evict(audio_decode_queue)
         ELSE UNCHANGED audio_decode_queue
    /\ wr_pc' = "put"
    /\ UNCHANGED <<wr_data, wr_start, wr_clean, rd_pc, processed_count,
                   next_frame, consumed>>
    /\ UNCHANGED <<schedVars, ctlVars>>

\* write_audio after queue.Full: the second put_nowait (a queue.Full here is
\* not caught: the frame is lost and the exception leaves write_audio)
WriteAudioPutAgain ==
    /\ wr_pc = "put"
    /\ IF put_ok(audio_decode_queue)
         THEN audio_decode_queue' = Append(audio_decode_queue, wr_data)
         ELSE UNCHANGED audio_decode_queue
    /\ wr_pc' = "idle"
    /\ UNCHANGED <<wr_data, wr_start, wr_clean, rd_pc, processed_count,
                   next_frame, consumed>>
    /\ UNCHANGED <<schedVars, ctlVars>>

\* play_audio entered: returns at once on an empty queue
PlayAudioStart ==
    /\ rd_pc = "idle"
    /\ audio_decode_queue # <<>>
    /\ rd_pc' = "play"
    /\ processed_count' = 0
    /\ UNCHANGED <<audio_decode_queue, wr_pc, wr_data, wr_start, wr_clean,
                   next_frame, consumed>>
    /\ UNCHANGED <<schedVars, ctlVars>>

\* play_audio: one iteration of the while loop (get_nowait, decode, write),
\* or its exit
PlayAudioStep ==
    /\ rd_pc = "play"
    /\ IF audio_decode_queue # <<>> /\ processed_count < max_process_per_call
         THEN /\ audio_decode_queue' = Tail(audio_decode_queue)
              /\ processed_count' = processed_count + 1
              /\ consumed' = TRUE
              /\ wr_clean' = (wr_clean /\ wr_pc = "idle")
              /\ UNCHANGED rd_pc
         ELSE /\ rd_pc' = "idle"
              /\ UNCHANGED <<audio_decode_queue, processed_count, consumed,
                             wr_clean>>
    /\ UNCHANGED <<wr_pc, wr_data, wr_start, next_frame>>
    /\ UNCHANGED <<schedVars, ctlVars>>

\* clear_audio_queue entered
ClearAudioQueueStart ==
    /\ rd_pc = "idle"
    /\ rd_pc' = "clear"
    /\ UNCHANGED <<audio_decode_queue, wr_pc, wr_data, wr_start, wr_clean,
                   processed_count, next_frame, consumed>>
    /\ UNCHANGED <<schedVars, ctlVars>>

\* clear_audio_queue: one iteration of `while not empty: get_nowait()`, or exit
ClearAudioQueueStep ==
    /\ rd_pc = "clear"
    /\ IF audio_decode_queue # <<>>
         THEN /\ audio_decode_queue' = Tail(audio_decode_queue)
              /\ consumed' = TRUE
              /\ wr_clean' = (wr_clean /\ wr_pc = "idle")
              /\ UNCHANGED rd_pc
         ELSE /\ rd_pc' = "idle"
              /\ UNCHANGED <<audio_decode_queue, consumed, wr_clean>>
    /\ UNCHANGED <<wr_pc, wr_data, wr_start, processed_count, next_frame>>
    /\ UNCHANGED <<schedVars, ctlVars>>

NextQueue ==
    \/ WriteAudioPut
    \/ WriteAudioEvict
    \/ WriteAudioPutAgain
    \/ PlayAudioStart
    \/ PlayAudioStep
    \/ ClearAudioQueueStart
    \/ ClearAudioQueueStep

\* =============================================== controller and protocol state
IDLE == "IDLE"
CONNECTING == "CONNECTING"
LISTENING == "LISTENING"
SPEAKING == "SPEAKING"
DeviceState == {IDLE, CONNECTING, LISTENING, SPEAKING}

\* AbortReason
NONE == "NONE"
WAKE_WORD_DETECTED == "WAKE_WORD_DETECTED"

\* delayed_state_change: max_wait_attempts
max_wait_attempts == 30

ConnIds == 1..(MaxEvents + MaxSpeakEvents + 1)

\* the state the handlers below read and write, as one record; fx lists what a
\* step does to the collaborators (display, observers, protocol loop, stream),
\* in order, and starts empty at every step
S == [ main_tasks |-> main_tasks, sched_event |-> sched_event,
       loop_pc |-> loop_pc, tasks |-> tasks,
       audio_decode_queue |-> audio_decode_queue,
       device_state |-> device_state, keep_listening |-> keep_listening,
       aborted |-> aborted, is_tts_playing |-> is_tts_playing,
       wake_word_detector |-> wake_word_detector, wwd_paused |-> wwd_paused,
       attempts |-> attempts, wait_att |-> wait_att,
       audio_output_event |-> audio_output_event, workers |-> workers,
       is_input_paused |-> is_input_paused, abort_pc |-> abort_pc,
       websocket |-> websocket, connected |-> connected,
       hello_received |-> hello_received, ev_set |-> ev_set,
       open_conns |-> open_conns, handlers |-> handlers,
       conn_attempts |-> conn_attempts, next_conn |-> next_conn,
       sends |-> sends, closes |-> closes,
       events_left |-> events_left, faults_left |-> faults_left,
       fx |-> <<>>, last |-> "-", ab |-> ab, opened_cb |-> opened_cb,
       scen |-> scen, scen_trace |-> scen_trace, watch |-> watch,
       audio_input_event |-> audio_input_event, audio_sends |-> audio_sends ]

\* the variables take the fields of st; _process_scheduled_tasks returns to
\* _main_loop with the last task of its copy, and _main_loop goes on to the
\* events after SCHEDULE_EVENT in self.events
Assign(st) ==
    /\ main_tasks' = st.main_tasks
    /\ sched_event' = st.sched_event
    /\ loop_pc' = IF st.loop_pc = "run" /\ st.tasks = <<>> THEN "poll_out"
                  ELSE st.loop_pc
    /\ tasks' = st.tasks
    /\ audio_decode_queue' = st.audio_decode_queue
    /\ device_state' = st.device_state
    /\ keep_listening' = st.keep_listening
    /\ aborted' = st.aborted
    /\ is_tts_playing' = st.is_tts_playing
    /\ wake_word_detector' = st.wake_word_detector
    /\ wwd_paused' = st.wwd_paused
    /\ attempts' = st.attempts
    /\ wait_att' = st.wait_att
    /\ audio_output_event' = st.audio_output_event
    /\ workers' = st.workers
    /\ is_input_paused' = st.is_input_paused
    /\ abort_pc' = st.abort_pc
    /\ websocket' = st.websocket
    /\ connected' = st.connected
    /\ hello_received' = st.hello_received
    /\ ev_set' = st.ev_set
    /\ open_conns' = st.open_conns
    /\ handlers' = st.handlers
    /\ conn_attempts' = st.conn_attempts
    /\ next_conn' = st.next_conn
    /\ sends' = st.sends
    /\ closes' = st.closes
    /\ events_left' = st.events_left
    /\ faults_left' = st.faults_left
    /\ last' = st.last
    /\ ab' = st.ab
    /\ opened_cb' = st.opened_cb
    /\ scen' = st.scen
    /\ scen_trace' = st.scen_trace
    /\ watch' = st.watch
    /\ audio_input_event' = st.audio_input_event
    /\ audio_sends' = st.audio_sends
    /\ UNCHANGED <<schedOnly, queueOnly, codecVars>>

\* the step ends in state st (st is computed once per step)
Commit(st) == \E r \in {st} : Assign(r)

\* the controller and the protocol after construction
Fresh ==
    /\ device_state = IDLE
    /\ keep_listening = FALSE
    /\ aborted = FALSE
    /\ is_tts_playing = FALSE
    /\ wake_word_detector = "running"
    /\ wwd_paused = FALSE
    /\ attempts = 0
    /\ wait_att = 0
    /\ audio_output_event = FALSE
    /\ workers = {}
    /\ is_input_paused = FALSE
    /\ abort_pc = [t \in {"ui", "main"} |-> "idle"]
    /\ websocket = 0
    /\ connected = FALSE
    /\ hello_received = 0
    /\ ev_set = {}
    /\ open_conns = {}
    /\ handlers = {}
    /\ conn_attempts = {}
    /\ next_conn = 1
    /\ sends = 0
    /\ closes = 0
    /\ ab = [calls |-> 0, spawned |-> 0, idle |-> 0]
    /\ opened_cb = [c \in ConnIds |-> 0]

\* the controller and the protocol at rest in SPEAKING on the first connection:
\* where a start (kl false: start_listening, kl true: toggle_chat_state), the
\* server hello and a tts start leave them
Speaking(kl) ==
    /\ device_state = SPEAKING
    /\ keep_listening = kl
    /\ aborted = FALSE
    /\ is_tts_playing = TRUE
    /\ wake_word_detector = "running"
    /\ wwd_paused = FALSE
    /\ attempts = 0
    /\ wait_att = 0
    /\ audio_output_event = FALSE
    /\ workers = {}
    /\ is_input_paused = FALSE
    /\ abort_pc = [t \in {"ui", "main"} |-> "idle"]
    /\ websocket = 1
    /\ connected = TRUE
    /\ hello_received = 1
    /\ ev_set = {1}
    /\ open_conns = {1}
    /\ handlers = {1}
    /\ conn_attempts = {}
    /\ next_conn = 2
    /\ sends = 0
    /\ closes = 0
    /\ ab = [calls |-> 0, spawned |-> 0, idle |-> 0]
    /\ opened_cb = [c \in ConnIds |-> IF c = 1 THEN 1 ELSE 0]

CtlInit ==
    /\ Fresh
    /\ events_left = MaxEvents
    /\ faults_left = MaxFaults
    /\ last = "-"
    /\ scen = 0
    /\ scen_trace = <<>>
    /\ watch = "-"
    /\ frame_duration = 60
    /\ max_queue_size = queue_maxsize(60)
    /\ stream_lock = "free"
    /\ stream_pc = [t \in {"main", "trigger"} |-> "idle"]
    /\ audio_input_event = FALSE
    /\ audio_sends = 0

CtlSpeakInit ==
    /\ \E kl \in BOOLEAN : Speaking(kl)
    /\ events_left = MaxSpeakEvents
    /\ faults_left = MaxSpeakFaults
    /\ last = "-"
    /\ scen = -1
    /\ scen_trace = <<>>
    /\ watch = "-"
    /\ frame_duration = 60
    /\ max_queue_size = queue_maxsize(60)
    /\ stream_lock = "free"
    /\ stream_pc = [t \in {"main", "trigger"} |-> "idle"]
    /\ audio_input_event = FALSE
    /\ audio_sends = 0

\* ------------------------------------------------------------ small helpers
Task(op) == [op |-> op, arg |-> "-"]
SetStateTask(s) == [op |-> "set_device_state", arg |-> s]

\* schedule(callback), append and set taken as one step
Schedule(st, t) ==
    [st EXCEPT !.main_tasks = schedule_append(@, t), !.sched_event = TRUE]

Emit(st, e) == [st EXCEPT !.fx = Append(@, e)]

\* asyncio.run_coroutine_threadsafe(self.protocol.send_...(...), self.loop)
SubmitSend(st, kind) == Emit([st EXCEPT !.sends = @ + 1], <<"submit", kind>>)

\* asyncio.run_coroutine_threadsafe(self.protocol.close_audio_channel(), ...)
SubmitClose(st) == Emit([st EXCEPT !.closes = @ + 1], <<"submit", "close">>)

\* self.alert(title, message)
alert(st) == Emit(st, <<"alert">>)

\* wake_word_detector.pause() / .resume() behind `if self.wake_word_detector`
wwd_pause(st) ==
    IF st.wake_word_detector = "none" THEN st
    ELSE [st EXCEPT !.wwd_paused = TRUE]

wwd_resume(st) ==
    IF st.wake_word_detector = "none" THEN st
    ELSE [st EXCEPT !.wwd_paused = FALSE]

\* `if self.wake_word_detector and self.wake_word_detector.is_running():
\* pause()`
wwd_pause_if_running(st) ==
    IF st.wake_word_detector = "running" THEN wwd_pause(st) ELSE st

\* success = self.wake_word_detector.start(self.audio_codec), and what the
\* callers do `if not success`: the functionality is disabled for good.  The
\* detector's own code is not in src/: a start that succeeds is taken to
\* leave it running and not paused.
wwd_start(st) ==
    IF st.wake_word_detector = "broken"
      THEN [st EXCEPT !.wake_word_detector = "none", !.wwd_paused = FALSE]
      ELSE [st EXCEPT !.wake_word_detector = "running", !.wwd_paused = FALSE]

\* `if self.wake_word_detector and self.wake_word_detector.paused: resume()`
wwd_resume_if_paused(st) ==
    IF st.wake_word_detector # "none" /\ st.wwd_paused THEN wwd_resume(st)
    ELSE st

\* a plausible slip: the paused input is left paused
resume_input_skipped(st) == st

\* `if self.audio_codec.is_input_paused(): self.audio_codec.resume_input()`
resume_input_if_paused(st) ==
    IF st.is_input_paused THEN [st EXCEPT !.is_input_paused = FALSE] ELSE st

\* WebsocketProtocol.is_audio_channel_opened
is_audio_channel_opened(st) == st.websocket # 0 /\ st.connected

\* AudioCodec.write_audio run to completion by its single producer
write_audio(q, d) ==
    IF put_ok(q) THEN Append(q, d) ELSE Append(evict(q), d)

\* AudioCodec.play_audio run to completion: up to max_process_per_call frames
play_audio(q) ==
    IF Len(q) <= max_process_per_call THEN <<>>
    ELSE SubSeq(q, max_process_per_call + 1, Len(q))

\* a plausible slip: the queue is left as it is
clear_audio_queue_skipped(q) == q

\* AudioCodec.clear_audio_queue run to completion
clear_audio_queue(q) == <<>>

\* a thread identity not in use
FreeWorkerId(st) ==
    CHOOSE i \in 1..(Cardinality(st.workers) + 1) :
        \A w \in st.workers : w.id # i

\* the end-to-end scenario is followed only while the environment does nothing
\* outside it
ScenOff(st) ==
    [st EXCEPT !.scen = -1, !.scen_trace = <<>>, !.watch = "-"]

Settled(st) ==
    /\ st.main_tasks = <<>>
    /\ st.tasks = <<>>
    /\ st.loop_pc = "poll"
    /\ st.workers = {}
    /\ st.sends = 0
    /\ st.closes = 0
    /\ st.conn_attempts = {}

\* ------------------------------------------------- Application: state changes
\* set_device_state, guard included
set_device_state_unguarded(st, s) ==
    LET a == Emit([st EXCEPT !.device_state = s], <<"status", s>>)
        b == CASE s = IDLE -> resume_input_if_paused(wwd_resume_if_paused(a))
               [] s = CONNECTING -> a
               [] s = LISTENING -> resume_input_if_paused(wwd_pause_if_running(a))
               [] s = SPEAKING -> wwd_resume_if_paused(a)
        c == Emit(b, <<"notify", s>>)
        d == IF s # SPEAKING /\ c.watch = "drain" THEN [c EXCEPT !.watch = "-"]
             ELSE c
    IN  IF d.scen >= 0 THEN [d EXCEPT !.scen_trace = Append(@, s)] ELSE d

set_device_state(st, s) ==
    IF st.device_state = s THEN st ELSE set_device_state_unguarded(st, s)

\* the abort that is to be followed by the toggle, with nothing else pending
OnlyThisAbort(st, reason) ==
    /\ reason = WAKE_WORD_DETECTED
    /\ st.device_state = SPEAKING
    /\ st.keep_listening
    /\ is_audio_channel_opened(st)
    /\ st.main_tasks = <<>>
    /\ st.tasks = <<>>
    /\ st.loop_pc \in {"poll", "poll_out", "run"}
    /\ st.workers = {}
    /\ st.sends = 0
    /\ st.closes = 0
    /\ st.conn_attempts = {}

\* abort_speaking without its `if self.aborted: return`
abort_speaking_unguarded(st, reason) ==
    LET a == [st EXCEPT !.aborted = TRUE,
                        !.is_tts_playing = FALSE,
                        !.audio_decode_queue = clear_audio_queue(@)]
        b == IF reason = WAKE_WORD_DETECTED THEN wwd_pause_if_running(a)
             ELSE a
        w == [id |-> FreeWorkerId(b), kind |-> "process_abort", pc |-> "wait",
              reason |-> reason, fresh |-> TRUE, att |-> 0]
    IN  [b EXCEPT !.workers = @ \cup {w},
                  !.ab = [@ EXCEPT !.spawned = @ + 1],
                  !.watch = IF OnlyThisAbort(st, reason) THEN "abort" ELSE @,
                  !.fx = Append(@, <<"submit", "abort">>)]

\* abort_speaking(reason); the process_abort thread is started and has handed
\* send_abort_speaking to the protocol loop
abort_speaking(st, reason) ==
    LET a == [st EXCEPT !.ab = [@ EXCEPT !.calls = IF @ < 2 THEN @ + 1 ELSE @]]
    IN  IF st.aborted THEN a ELSE abort_speaking_unguarded(a, reason)

\* a plausible slip: the close is issued whatever the device state
on_network_error_always_closes(st) ==
    LET a == Emit(st, <<"cb", "network_error">>)
        b == Schedule([a EXCEPT !.keep_listening = FALSE], SetStateTask(IDLE))
        c == wwd_resume_if_paused(b)
    IN  SubmitClose(Schedule(c, SetStateTask(IDLE)))

\* _on_network_error
on_network_error(st) ==
    LET a == Emit(st, <<"cb", "network_error">>)
        b == Schedule([a EXCEPT !.keep_listening = FALSE], SetStateTask(IDLE))
        c == wwd_resume_if_paused(b)
    IN  IF c.device_state # CONNECTING
          THEN SubmitClose(Schedule(c, SetStateTask(IDLE)))
          ELSE c

\* a plausible slip: a detector that is not running is left as it is
on_audio_channel_closed_no_start(st) ==
    LET a == Emit(st, <<"cb", "channel_closed">>)
        b == Schedule(a, SetStateTask(IDLE))
    IN  wwd_resume_if_paused([b EXCEPT !.keep_listening = FALSE])

\* _on_audio_channel_closed
on_audio_channel_closed(st) ==
    LET a == Emit(st, <<"cb", "channel_closed">>)
        b == Schedule(a, SetStateTask(IDLE))
        c == [b EXCEPT !.keep_listening = FALSE]
    IN  IF c.wake_word_detector \in {"stopped", "broken"} THEN wwd_start(c)
        ELSE wwd_resume_if_paused(c)

\* _on_audio_channel_opened, called by the handler of connection c.  What it
\* starts besides is outside the state kept here: _start_audio_streams only
\* makes the PyAudio streams active, and the IoT descriptors and states go to
\* the ThingManager collaborator's senders.
on_audio_channel_opened(st, c) ==
    Emit([st EXCEPT !.opened_cb[c] = @ + 1], <<"cb", "channel_opened">>)

\* ------------------------------------------------------- WebsocketProtocol
\* close_audio_channel: close the transport (its dispatch loop ends with it),
\* forget it, mark the channel closed, call back
close_audio_channel(st) ==
    IF st.websocket = 0 THEN st
    ELSE on_audio_channel_closed(
           [st EXCEPT !.open_conns = @ \ {st.websocket},
                      !.handlers = @ \ {st.websocket},
                      !.websocket = 0,
                      !.connected = FALSE])

\* a plausible slip: the failure is reported but the channel is left as it is
send_text_unclosed(st, transportFails) ==
    IF st.websocket = 0 THEN st
    ELSE IF transportFails \/ st.websocket \notin st.open_conns
           THEN on_network_error(st)
           ELSE st

\* send_text(message); transportFails: websocket.send raises (it always does on
\* a transport that is closed)
send_text(st, transportFails) ==
    IF st.websocket = 0 THEN st
    ELSE IF transportFails \/ st.websocket \notin st.open_conns
           THEN on_network_error(close_audio_channel(st))
           ELSE st

\* _handle_server_hello for a hello whose transport field is "websocket",
\* received on connection c
handle_server_hello(st, c) ==
    on_audio_channel_opened([st EXCEPT !.ev_set = @ \cup {st.hello_received}], c)

\* a connect()/open_audio_channel() coroutine handed to the loop:
\*   org  who awaits it: "main" (_start_listening_impl), "worker"
\*        (connect_and_listen), "wake" (_connect_and_start_listening)
\*   ev   the Event it waits on; nerr the network-error callbacks it made;
\*   res  what it returned; how  why it returned
NewAttempt(st, org, w) ==
    [st EXCEPT !.conn_attempts = @ \cup
                 {[id |-> st.next_conn, pc |-> "start", org |-> org, w |-> w,
                   ev |-> 0, nerr |-> 0, res |-> "none", how |-> "none"]},
               !.next_conn = @ + 1,
               !.fx = Append(@, <<"submit", "open">>)]

UpdAttempt(st, a, b) ==
    [st EXCEPT !.conn_attempts = (@ \ {a}) \cup {b}]

DropAttempt(st, a) == [st EXCEPT !.conn_attempts = @ \ {a}]

\* future.result(timeout) raised: nobody awaits the coroutine any more
Abandon(st, id) ==
    [st EXCEPT !.conn_attempts =
       {IF a.id = id THEN [a EXCEPT !.org = "nobody"] ELSE a : a \in @}]

\* _connect_and_start_listening after `await self.protocol.connect()`;
\* open_audio_channel() returns True at once after a connect() that returned
\* True; f1, f2: the two sends fail at the transport
connect_and_start_listening_rest(st, ok, f1, f2) ==
    IF ~ok
      THEN wwd_resume(Schedule(alert(st), SetStateTask(IDLE)))
      ELSE LET a == send_text(Emit(st, <<"send", "wake_word">>), f1)
               b == [a EXCEPT !.keep_listening = TRUE]
               c == send_text(Emit(b, <<"send", "start_listening">>), f2)
           IN  Schedule(c, SetStateTask(LISTENING))

\* connect() returns res to whoever awaits it
Return(st, a, nerr, res, how, f1, f2) ==
    LET b == [a EXCEPT !.pc = "done", !.res = res, !.how = how,
                       !.nerr = @ + nerr]
    IN  CASE a.org = "wake" ->
               connect_and_start_listening_rest(DropAttempt(st, a),
                                                res = "true", f1, f2)
          [] a.org = "nobody" -> DropAttempt(st, a)
          [] OTHER -> UpdAttempt(st, a, b)

\* open_audio_channel() goes through connect() unless self.connected is set
must_connect(st, a) == a.org = "wake" \/ ~st.connected

\* open_audio_channel() returns True without connecting
open_already(st, a) == Return(st, a, 0, "true", "already", FALSE, FALSE)

\* connect() from its start to its wait for the server hello: a new Event, the
\* transport from websockets.connect, the dispatch loop started, the client
\* hello sent
connect_dialled(st, a, helloSendFails) ==
    LET t == [st EXCEPT !.hello_received = a.id,
                        !.websocket = a.id,
                        !.open_conns = @ \cup {a.id},
                        !.handlers = @ \cup {a.id}]
        u == send_text(t, helloSendFails)
    IN  UpdAttempt(u, a,
          [a EXCEPT !.pc = "wait",
                    !.ev = u.hello_received,
                    !.nerr = IF helloSendFails THEN @ + 1 ELSE @])

\* connect(): a new Event, then websockets.connect raised
connect_failed(st, a) ==
    Return(on_network_error([st EXCEPT !.hello_received = a.id]), a, 1,
           "false", "dial", FALSE, FALSE)

\* connect(): hello_received.wait() returned
connect_hello(st, a, f1, f2) ==
    Return([st EXCEPT !.connected = TRUE], a, 0, "true", "hello", f1, f2)

\* connect(): asyncio.TimeoutError after 10 s
connect_timeout(st, a) ==
    Return(on_network_error(st), a, 1, "false", "timeout", FALSE, FALSE)

\* --------------------------------------------- Application: scheduled tasks
PopTask(st) == [st EXCEPT !.tasks = Tail(@)]

\* _handle_tts_start
handle_tts_start(st) ==
    LET a == [st EXCEPT !.aborted = FALSE,
                        !.is_tts_playing = TRUE,
                        !.audio_decode_queue = clear_audio_queue(@),
                        !.ab = [calls |-> 0, spawned |-> 0, idle |-> 0],
                        !.workers = {[w EXCEPT !.fresh = FALSE] : w \in @}]
    IN  IF a.device_state = IDLE \/ a.device_state = LISTENING
          THEN Schedule(a, SetStateTask(SPEAKING))
          ELSE a

\* _handle_tts_stop: the input stream is reinitialized (its failure is a
\* return value, not an exception) and the drain is scheduled
handle_tts_stop(st) ==
    IF st.device_state = SPEAKING
      THEN Schedule(Emit(st, <<"reinit", "input">>),
                    Task("delayed_state_change"))
      ELSE st

\* a plausible slip: keep_listening is not looked at
delayed_state_change_rest_idle(st) ==
    Schedule([st EXCEPT !.is_tts_playing = FALSE, !.attempts = 0],
             SetStateTask(IDLE))

\* delayed_state_change after its wait loop and its grace sleep
delayed_state_change_rest(st) ==
    LET a == [st EXCEPT !.is_tts_playing = FALSE, !.attempts = 0]
    IN  IF a.keep_listening
          THEN Schedule(SubmitSend(a, "start_listening"),
                        SetStateTask(LISTENING))
          ELSE Schedule(a, SetStateTask(IDLE))

\* a plausible slip: the request for LISTENING is left out
start_listening_go_unannounced(st) ==
    SubmitSend(Emit(st, <<"reinit", "input">>), "start_listening")

\* _start_listening_impl from the forced reinitialization on
start_listening_go(st) ==
    Schedule(SubmitSend(Emit(st, <<"reinit", "input">>), "start_listening"),
             SetStateTask(LISTENING))

\* _start_listening_impl up to its wait for open_audio_channel(), or to its end
start_listening_impl(st) ==
    LET a == wwd_pause([st EXCEPT !.keep_listening = FALSE])
    IN  IF a.device_state = IDLE
          THEN LET b == Schedule(a, SetStateTask(CONNECTING))
               IN  IF ~is_audio_channel_opened(b)
                     THEN [NewAttempt(b, "main", 0)
                             EXCEPT !.loop_pc = "open_wait",
                                    !.wait_att = b.next_conn]
                     ELSE PopTask(start_listening_go(b))
          ELSE IF a.device_state = SPEAKING
                 THEN PopTask(IF ~a.aborted
                                THEN abort_speaking(a, WAKE_WORD_DETECTED)
                                ELSE a)
                 ELSE PopTask(a)

\* a plausible slip: a failed open is only logged
start_listening_opened_silent(st, success) ==
    LET a == [st EXCEPT !.loop_pc = "run", !.wait_att = 0]
    IN  PopTask(IF success THEN start_listening_go(a) ELSE a)

\* _start_listening_impl after future.result(timeout=10.0)
start_listening_opened(st, success) ==
    LET a == [st EXCEPT !.loop_pc = "run", !.wait_att = 0]
    IN  PopTask(IF success THEN start_listening_go(a)
                ELSE Schedule(alert(a), SetStateTask(IDLE)))

\* _stop_listening_impl
stop_listening_impl(st) ==
    IF st.device_state = LISTENING
      THEN set_device_state(SubmitSend(st, "stop_listening"), IDLE)
      ELSE st

\* connect_and_listen from `self.keep_listening = True` on
connect_and_listen_go(st) ==
    Schedule(SubmitSend([st EXCEPT !.keep_listening = TRUE], "start_listening"),
             SetStateTask(LISTENING))

\* connect_and_listen from `self.keep_listening = True` on, when handing the
\* start-listening message to the loop (or schedule) raises: the thread calls
\* set_device_state itself
connect_and_listen_raised(st) ==
    alert(set_device_state([st EXCEPT !.keep_listening = TRUE], IDLE))

\* _toggle_chat_state_impl; the connect_and_listen thread is started and has
\* run to its end, or to its wait for open_audio_channel()
toggle_chat_state_impl(st) ==
    CASE st.device_state = IDLE ->
           LET a == Schedule(st, SetStateTask(CONNECTING))
           IN  IF is_audio_channel_opened(a)
                 THEN connect_and_listen_go(a)
                 ELSE [NewAttempt(a, "worker", FreeWorkerId(a))
                         EXCEPT !.workers = @ \cup
                           {[id |-> FreeWorkerId(a),
                             kind |-> "connect_and_listen",
                             pc |-> "open_wait", reason |-> NONE,
                             fresh |-> FALSE, att |-> a.next_conn]}]
      [] st.device_state = SPEAKING -> abort_speaking(st, NONE)
      [] st.device_state = LISTENING ->
           Schedule(SubmitClose(st), SetStateTask(IDLE))
      [] OTHER -> st

\* a plausible slip: the detector is paused and nothing is scheduled
toggle_chat_state_unscheduled(st) == wwd_pause(st)

\* toggle_chat_state
toggle_chat_state(st) == Schedule(wwd_pause(st), Task("toggle_chat_state_impl"))

\* _handle_wake_word_detected
handle_wake_word_detected(st) ==
    CASE st.device_state = IDLE ->
           NewAttempt(Schedule(wwd_pause(st), SetStateTask(CONNECTING)),
                      "wake", 0)
      [] st.device_state = SPEAKING -> abort_speaking(st, WAKE_WORD_DETECTED)
      [] OTHER -> st

\* _on_incoming_audio
on_incoming_audio(st) ==
    IF st.device_state = SPEAKING
      THEN [st EXCEPT !.audio_decode_queue = write_audio(@, 0),
                      !.audio_output_event = TRUE]
      ELSE st

\* _on_incoming_json with _handle_tts_message: a tts message schedules its
\* handler; what stt, llm and iot messages schedule is display and IoT work
on_incoming_json(st, kind) ==
    CASE kind = "tts_start" -> Schedule(st, Task("handle_tts_start"))
      [] kind = "tts_stop" -> Schedule(st, Task("handle_tts_stop"))
      [] OTHER -> st

\* _handle_output_audio
handle_output_audio(st) ==
    IF st.device_state # SPEAKING THEN st
    ELSE [st EXCEPT !.is_tts_playing = TRUE,
                    !.audio_decode_queue = play_audio(@)]

\* a plausible slip: the microphone is read whatever the device state
handle_input_audio_ungated(st, got) ==
    IF got /\ is_audio_channel_opened(st)
      THEN [st EXCEPT !.audio_sends = @ + 1, !.last = "audio_handed"]
      ELSE [st EXCEPT !.last = "audio_read"]

\* _handle_input_audio; got: read_audio() returned an encoded frame
handle_input_audio(st, got) ==
    IF st.device_state # LISTENING THEN st
    ELSE IF got /\ is_audio_channel_opened(st)
           THEN [st EXCEPT !.audio_sends = @ + 1, !.last = "audio_handed"]
           ELSE [st EXCEPT !.last = "audio_read"]

\* send_audio(data); transportFails: websocket.send raises (it always does on
\* a transport that is closed)
send_audio(st, transportFails) ==
    IF ~is_audio_channel_opened(st) THEN [st EXCEPT !.last = "audio_skipped"]
    ELSE IF transportFails \/ st.websocket \notin st.open_conns
           THEN on_network_error(st)
           ELSE [st EXCEPT !.last = "audio_sent"]

\* ------------------------------------------------- environment bookkeeping
\* an event outside the end-to-end scenario
Event(st) == [ScenOff(st) EXCEPT !.events_left = @ - 1]
Fault(st, n) ==
    IF n = 0 THEN st
    ELSE [ScenOff(st) EXCEPT !.faults_left = @ - n, !.events_left = @ - n]
CanFault(n) == faults_left >= n /\ events_left >= n

\* an event that is the scenario's step number k when `ready` holds
ScenEvent(st, k, ready) ==
    [(IF st.scen = k - 1 /\ ready THEN [st EXCEPT !.scen = k] ELSE ScenOff(st))
       EXCEPT !.events_left = @ - 1, !.watch = "-"]

B2N(b) == IF b THEN 1 ELSE 0

LiveConns == open_conns \cap handlers

\* ------------------------------------------------------------- user, wake word
\* start_listening() on the UI thread
UserStartListening ==
    /\ events_left > 0
    /\ Commit(Schedule(ScenEvent(S, 1, TRUE), Task("start_listening_impl")))

\* stop_listening() on the UI thread
UserStopListening ==
    /\ events_left > 0
    /\ Commit(Schedule(Event(S), Task("stop_listening_impl")))

\* toggle_chat_state() on the UI thread
UserToggle ==
    /\ events_left > 0
    /\ Commit(toggle_chat_state(Event(S)))

\* abort_callback on the UI thread
UserAbort ==
    /\ events_left > 0
    /\ Commit(abort_speaking(Event(S), WAKE_WORD_DETECTED))

\* _on_wake_word_detected on the detector's thread
WakeWordDetected ==
    /\ events_left > 0
    /\ wake_word_detector = "running"
    /\ ~wwd_paused
    /\ Commit(Schedule(Event(S), Task("handle_wake_word_detected")))

\* ------------------------------------------------------------ controller loop
Running(op) ==
    /\ loop_pc = "run"
    /\ tasks # <<>>
    /\ Head(tasks).op = op

\* _main_loop finds SCHEDULE_EVENT set; _process_scheduled_tasks takes the list
LoopTick ==
    /\ loop_pc = "poll"
    /\ sched_event
    /\ Commit([S EXCEPT !.sched_event = FALSE, !.tasks = S.main_tasks,
                        !.main_tasks = <<>>, !.loop_pc = "run"])

\* _main_loop finds SCHEDULE_EVENT clear and goes on to the next event
LoopSkipSchedule ==
    /\ loop_pc = "poll"
    /\ ~sched_event
    /\ Commit([S EXCEPT !.loop_pc = "poll_out"])

\* _main_loop finds AUDIO_OUTPUT_READY_EVENT set; then it sleeps and starts
\* over with SCHEDULE_EVENT
HandleOutputAudio ==
    /\ loop_pc = "poll_out"
    /\ audio_output_event
    /\ Commit(handle_output_audio([S EXCEPT !.audio_output_event = FALSE,
                                            !.loop_pc = "poll"]))

\* _main_loop finds AUDIO_OUTPUT_READY_EVENT clear, sleeps and starts over
LoopSkipOutput ==
    /\ loop_pc = "poll_out"
    /\ ~audio_output_event
    /\ Commit([S EXCEPT !.loop_pc = "poll"])

\* _audio_output_event_trigger
OutputTrigger ==
    /\ device_state = SPEAKING
    /\ audio_decode_queue # <<>>
    /\ ~audio_output_event
    /\ Commit([S EXCEPT !.audio_output_event = TRUE])

RunSetDeviceState ==
    /\ Running("set_device_state")
    /\ Commit([set_device_state(PopTask(S), Head(tasks).arg)
                EXCEPT !.last = IF Head(tasks).arg = device_state
                                  THEN "same_state" ELSE "-"])

RunTtsStart ==
    /\ Running("handle_tts_start")
    /\ Commit(handle_tts_start(PopTask(S)))

\* nothing but the task being run is pending anywhere
OnlyThisTask ==
    /\ main_tasks = <<>>
    /\ Len(tasks) = 1
    /\ workers = {}
    /\ sends = 0
    /\ closes = 0
    /\ conn_attempts = {}

RunTtsStop ==
    /\ Running("handle_tts_stop")
    /\ Commit([handle_tts_stop(PopTask(S))
                EXCEPT !.watch =
                         IF /\ device_state = SPEAKING
                            /\ OnlyThisTask
                            /\ Len(audio_decode_queue) <= max_process_per_call
                           THEN "drain" ELSE watch])

RunStartListening ==
    /\ Running("start_listening_impl")
    /\ Commit(start_listening_impl(S))

\* future.result(timeout=10.0) returns the coroutine's result
MainOpenResult ==
    /\ loop_pc = "open_wait"
    /\ \E a \in conn_attempts :
         /\ a.id = wait_att
         /\ a.pc = "done"
         /\ Commit([start_listening_opened(DropAttempt(S, a), a.res = "true")
                     EXCEPT !.last = IF a.res = "true" THEN "-"
                                     ELSE "open_failed"])

\* future.result(timeout=10.0) raises
MainOpenTimeout ==
    /\ loop_pc = "open_wait"
    /\ CanFault(1)
    /\ \A a \in conn_attempts : a.id = wait_att => a.pc # "done"
    /\ Commit([start_listening_opened(Abandon(Fault(S, 1), wait_att), FALSE)
                EXCEPT !.last = "open_timeout"])

RunStopListening ==
    /\ Running("stop_listening_impl")
    /\ Commit(stop_listening_impl(PopTask(S)))

RunToggleImpl ==
    /\ Running("toggle_chat_state_impl")
    /\ Commit([toggle_chat_state_impl(PopTask(S))
                EXCEPT !.last =
                  CASE device_state = LISTENING -> "toggle_listening"
                    [] device_state = IDLE /\ is_audio_channel_opened(S) ->
                         "listen_started"
                    [] OTHER -> "-",
                       !.watch = IF device_state = LISTENING /\ OnlyThisTask
                                   THEN "toggle" ELSE watch])

RunToggleChatState ==
    /\ Running("toggle_chat_state")
    /\ Commit(toggle_chat_state(PopTask(S)))

RunWakeWord ==
    /\ Running("handle_wake_word_detected")
    /\ Commit([handle_wake_word_detected(PopTask(S))
                EXCEPT !.last = "wake_word"])

\* _restart_wake_word_detector: stop(), then start(), which succeeds for a
\* detector that was running if `ok`; with no detector the call on None raises
\* inside the try and the handler leaves it None
restart_wake_word_detector(st, ok) ==
    IF st.wake_word_detector = "none" THEN st
    ELSE wwd_start([st EXCEPT !.wake_word_detector =
                                 IF @ = "running" /\ ~ok THEN "broken"
                                 ELSE IF @ = "running" THEN "stopped"
                                 ELSE @])

RunRestartDetector ==
    \E ok \in BOOLEAN :
      /\ Running("restart_wake_word_detector")
      /\ ~ok => wake_word_detector = "running" /\ CanFault(1)
      /\ Commit(restart_wake_word_detector(
                  PopTask(Fault(S, IF ok THEN 0 ELSE 1)), ok))

\* the detector's thread ends on an error and reports it through on_error:
\* _handle_wake_word_error schedules a restart when the device is IDLE
DetectorStops ==
    \E how \in {"stopped", "broken"} :
      /\ wake_word_detector = "running"
      /\ CanFault(1)
      /\ LET a == [Fault(S, 1) EXCEPT !.wake_word_detector = how]
         IN  Commit(IF a.device_state = IDLE
                      THEN Schedule(a, Task("restart_wake_word_detector"))
                      ELSE a)

\* delayed_state_change entered
RunDelayedStateChange ==
    /\ Running("delayed_state_change")
    /\ Commit([S EXCEPT !.loop_pc = "drain", !.attempts = 0])

\* delayed_state_change: one time.sleep(wait_interval) of the wait loop
DrainPoll ==
    /\ loop_pc = "drain"
    /\ audio_decode_queue # <<>>
    /\ attempts < max_wait_attempts
    /\ Commit([S EXCEPT !.attempts = @ + 1])

\* delayed_state_change: the wait loop ends
DrainEnd ==
    /\ loop_pc = "drain"
    /\ ~(audio_decode_queue # <<>> /\ attempts < max_wait_attempts)
    /\ Commit([delayed_state_change_rest(PopTask([S EXCEPT !.loop_pc = "run"]))
                EXCEPT !.last = IF attempts = max_wait_attempts
                                  THEN "drain_timeout" ELSE "drained"])

\* --------------------------------------------------------------- worker threads
SetWorker(st, w, v) == [st EXCEPT !.workers = (@ \ {w}) \cup {v}]
EndWorker(st, w) == [st EXCEPT !.workers = @ \ {w}]

\* connect_and_listen: future.result(timeout=5.0) returns
WorkerOpenResult ==
    \E w \in workers : \E a \in conn_attempts :
      /\ w.kind = "connect_and_listen"
      /\ w.pc = "open_wait"
      /\ a.id = w.att
      /\ a.pc = "done"
      /\ Commit(IF a.res = "true"
                  THEN [connect_and_listen_go(DropAttempt(EndWorker(S, w), a))
                          EXCEPT !.last = "listen_started"]
                  ELSE Schedule(alert(DropAttempt(EndWorker(S, w), a)),
                                SetStateTask(IDLE)))

\* connect_and_listen: future.result(timeout=5.0) returns True and
\* asyncio.run_coroutine_threadsafe raises; the failure is the thread's own and
\* counts as a fault only
WorkerListenRaises ==
    \E w \in workers : \E a \in conn_attempts :
      /\ w.kind = "connect_and_listen"
      /\ w.pc = "open_wait"
      /\ a.id = w.att
      /\ a.pc = "done"
      /\ a.res = "true"
      /\ faults_left >= 1
      /\ Commit(connect_and_listen_raised(
                  DropAttempt(EndWorker([ScenOff(S) EXCEPT !.faults_left = @ - 1],
                                        w), a)))

\* connect_and_listen: future.result(timeout=5.0) raises
WorkerOpenTimeout ==
    \E w \in workers :
      /\ w.kind = "connect_and_listen"
      /\ w.pc = "open_wait"
      /\ CanFault(1)
      /\ \A a \in conn_attempts : a.id = w.att => a.pc # "done"
      /\ Commit([alert(Schedule(EndWorker(Abandon(Fault(S, 1), w.att), w),
                                SetStateTask(IDLE)))
                  EXCEPT !.last = "toggle_open_timeout"])

\* process_abort: send_abort_speaking runs on the loop and future.result
\* returns
AbortSendDone ==
    \E w \in workers : \E fails \in BOOLEAN :
      /\ w.kind = "process_abort"
      /\ w.pc = "wait"
      /\ fails => (CanFault(1) /\ websocket \in open_conns)
      /\ Commit(SetWorker(send_text(Fault(S, B2N(fails)), fails), w,
                          [w EXCEPT !.pc = "sched"]))

\* process_abort: future.result(timeout=1.0) raises, the send is still to run
AbortSendTimeout ==
    \E w \in workers :
      /\ w.kind = "process_abort"
      /\ w.pc = "wait"
      /\ CanFault(1)
      /\ Commit(SetWorker([Fault(S, 1) EXCEPT !.sends = @ + 1], w,
                          [w EXCEPT !.pc = "sched"]))

\* process_abort: schedule IDLE, decide on the re-toggle
AbortSchedule ==
    \E w \in workers :
      /\ w.kind = "process_abort"
      /\ w.pc = "sched"
      /\ LET a == Schedule(S, SetStateTask(IDLE))
             b == IF w.fresh THEN [a EXCEPT !.ab = [@ EXCEPT !.idle = @ + 1]]
                  ELSE a
         IN  Commit(IF /\ w.reason = WAKE_WORD_DETECTED
                       /\ b.keep_listening
                       /\ is_audio_channel_opened(b)
                      THEN SetWorker(b, w, [w EXCEPT !.pc = "retoggle"])
                      ELSE EndWorker(b, w))

\* process_abort: after time.sleep(0.1), schedule toggle_chat_state
AbortRetoggle ==
    \E w \in workers :
      /\ w.kind = "process_abort"
      /\ w.pc = "retoggle"
      /\ Commit([Schedule(EndWorker(S, w), Task("toggle_chat_state"))
                  EXCEPT !.watch = IF watch = "abort" THEN "retoggle"
                                   ELSE watch])

\* --------------------------------------------------------- protocol event loop
\* a submitted send_... coroutine runs
DoSend ==
    \E fails \in BOOLEAN :
      /\ sends > 0
      /\ fails => (CanFault(1) /\ websocket \in open_conns)
      /\ Commit([send_text([Fault(S, B2N(fails)) EXCEPT !.sends = @ - 1], fails)
                  EXCEPT !.last = IF /\ websocket # 0
                                     /\ (fails \/ websocket \notin open_conns)
                                    THEN "send_failed" ELSE "-"])

\* a submitted close_audio_channel coroutine runs
DoClose ==
    /\ closes > 0
    /\ Commit(close_audio_channel([S EXCEPT !.closes = @ - 1]))

\* open_audio_channel() finds the channel marked connected and returns; or
\* websockets.connect returns a connection and the client hello is sent
ConnOpen ==
    \E a \in conn_attempts :
      /\ a.pc = "start"
      /\ Commit(IF must_connect(S, a) THEN connect_dialled(S, a, FALSE)
                ELSE open_already(S, a))

\* websockets.connect returns a connection and sending the client hello fails
ConnDialSendFail ==
    \E a \in conn_attempts :
      /\ a.pc = "start"
      /\ must_connect(S, a)
      /\ CanFault(1)
      /\ Commit(connect_dialled(Fault(S, 1), a, TRUE))

\* websockets.connect raises
ConnDialFail ==
    \E a \in conn_attempts :
      /\ a.pc = "start"
      /\ must_connect(S, a)
      /\ CanFault(1)
      /\ Commit(connect_failed(Fault(S, 1), a))

\* the wait for the server hello ends with the Event set
ConnHello ==
    \E a \in conn_attempts : \E f1, f2 \in BOOLEAN :
      /\ a.pc = "wait"
      /\ a.ev \in ev_set
      /\ (f1 \/ f2) => a.org = "wake"
      /\ ~(f1 /\ f2)
      /\ CanFault(B2N(f1) + B2N(f2))
      /\ Commit(connect_hello(Fault(S, B2N(f1) + B2N(f2)), a, f1, f2))

\* the wait for the server hello times out
ConnTimeout ==
    \E a \in conn_attempts :
      /\ a.pc = "wait"
      /\ a.ev \notin ev_set
      /\ CanFault(1)
      /\ Commit(connect_timeout(Fault(S, 1), a))

\* a plausible slip: JSONDecodeError handled like any other read error
message_malformed_as_error(st) ==
    on_network_error([st EXCEPT !.connected = FALSE])

\* what _message_handler does with a text message json.loads rejects
message_malformed(st) == st

\* the messages a peer can send, by what _message_handler makes of them:
\*   binary      a bytes message
\*   hello       {"type": "hello", "transport": "websocket"}
\*   bad_hello   a hello with another transport, or none
\*   tts_start   {"type": "tts", "state": "start"}
\*   tts_stop    {"type": "tts", "state": "stop"}
\*   other_json  any other JSON object
\*   non_object  JSON text that is not an object ([], 1, "x", null)
\*   malformed   text json.loads rejects
MessageKinds ==
    {"binary", "hello", "bad_hello", "tts_start", "tts_stop", "other_json",
     "non_object", "malformed"}

\* _message_handler: the body of `async for message in self.websocket` for one
\* message of the given kind received on connection c.  data.get("type") on a
\* JSON value that is not an object raises AttributeError, which only the
\* outer `except Exception` catches: the loop is over, the transport still open
message_handler(st, c, kind) ==
    CASE kind = "binary" ->
           on_incoming_audio(Emit(st, <<"cb", "incoming_audio">>))
      [] kind = "hello" -> handle_server_hello(st, c)
      [] kind = "bad_hello" -> st
      [] kind \in {"tts_start", "tts_stop", "other_json"} ->
           on_incoming_json(Emit(st, <<"cb", "incoming_json">>), kind)
      [] kind = "non_object" ->
           on_network_error([st EXCEPT !.connected = FALSE,
                                       !.handlers = @ \ {c}])
      [] kind = "malformed" -> message_malformed(st)

\* _message_handler for n binary messages received back to back
RECURSIVE on_incoming_burst(_, _, _)
on_incoming_burst(st, c, n) ==
    IF n = 0 THEN st
    ELSE on_incoming_burst(message_handler(st, c, "binary"), c, n - 1)

\* _message_handler of connection c receives {"type": "hello",
\* "transport": "websocket"}
ServerHello ==
    \E c \in LiveConns :
      /\ events_left > 0
      /\ Commit(message_handler(ScenEvent(S, 2, TRUE), c, "hello"))

\* _message_handler receives a hello with another transport: logged, dropped
ServerBadHello ==
    \E c \in LiveConns :
      /\ events_left > 0
      /\ Commit(message_handler(Event(S), c, "bad_hello"))

\* _message_handler receives {"type": "tts", "state": "start"}
ServerTtsStart ==
    \E c \in LiveConns :
      /\ events_left > 0
      /\ Commit(message_handler(
           ScenEvent(S, 3, Settled(S) /\ device_state = LISTENING),
           c, "tts_start"))

\* _message_handler receives {"type": "tts", "state": "stop"}
ServerTtsStop ==
    \E c \in LiveConns :
      /\ events_left > 0
      /\ Commit(message_handler(
           ScenEvent(S, 4, /\ Settled(S)
                           /\ device_state = SPEAKING
                           /\ ~keep_listening
                           /\ audio_decode_queue = <<>>),
           c, "tts_stop"))

\* _message_handler receives binary frames: one, or more than the playback
\* queue holds
ServerAudio ==
    \E c \in LiveConns : \E n \in {1, QueueCap + 1} :
      /\ events_left > 0
      /\ Commit(on_incoming_burst(Event(S), c, n))

\* _message_handler receives a text message that is not JSON
ServerMalformed ==
    \E c \in LiveConns :
      /\ events_left > 0
      /\ Commit([message_handler(Event(S), c, "malformed")
                  EXCEPT !.last = "malformed"])

\* _message_handler receives JSON text that is not an object
ServerNonObject ==
    \E c \in LiveConns :
      /\ CanFault(1)
      /\ Commit([message_handler(Fault(S, 1), c, "non_object")
                  EXCEPT !.last = "non_object"])

\* _message_handler: websockets.ConnectionClosed
RemoteClose ==
    \E c \in LiveConns :
      /\ CanFault(1)
      /\ Commit([on_audio_channel_closed(
                   [Fault(S, 1) EXCEPT !.connected = FALSE,
                                       !.open_conns = @ \ {c},
                                       !.handlers = @ \ {c}])
                  EXCEPT !.last = "remote_close"])

\* _message_handler: any other exception while reading
ReadError ==
    \E c \in LiveConns :
      /\ CanFault(1)
      /\ Commit([on_network_error(
                   [Fault(S, 1) EXCEPT !.connected = FALSE,
                                       !.open_conns = @ \ {c},
                                       !.handlers = @ \ {c}])
                  EXCEPT !.last = "read_error"])

Next ==
    \/ UserStartListening
    \/ UserStopListening
    \/ UserToggle
    \/ UserAbort
    \/ WakeWordDetected
    \/ DetectorStops
    \/ LoopTick
    \/ LoopSkipSchedule
    \/ HandleOutputAudio
    \/ LoopSkipOutput
    \/ OutputTrigger
    \/ RunSetDeviceState
    \/ RunRestartDetector
    \/ RunTtsStart
    \/ RunTtsStop
    \/ RunStartListening
    \/ MainOpenResult
    \/ MainOpenTimeout
    \/ RunStopListening
    \/ RunToggleImpl
    \/ RunToggleChatState
    \/ RunWakeWord
    \/ RunDelayedStateChange
    \/ DrainPoll
    \/ DrainEnd
    \/ WorkerOpenResult
    \/ WorkerOpenTimeout
    \/ WorkerListenRaises
    \/ AbortSendDone
    \/ AbortSendTimeout
    \/ AbortSchedule
    \/ AbortRetoggle
    \/ DoSend
    \/ DoClose
    \/ ConnOpen
    \/ ConnDialSendFail
    \/ ConnDialFail
    \/ ConnHello
    \/ ConnTimeout
    \/ ServerHello
    \/ ServerBadHello
    \/ ServerTtsStart
    \/ ServerTtsStop
    \/ ServerAudio
    \/ ServerMalformed
    \/ ServerNonObject
    \/ RemoteClose
    \/ ReadError

\* ------------------------------------------- set_device_state on its own
\* the controller in any device state, with the detector (if there is one)
\* and the audio input paused or not
CtlStateInit ==
    /\ device_state \in DeviceState
    /\ keep_listening = FALSE
    /\ aborted = FALSE
    /\ is_tts_playing = FALSE
    /\ wake_word_detector \in {"none", "running"}
    /\ wwd_paused \in BOOLEAN
    /\ wake_word_detector = "none" => ~wwd_paused
    /\ attempts = 0
    /\ wait_att = 0
    /\ audio_output_event = FALSE
    /\ workers = {}
    /\ is_input_paused \in BOOLEAN
    /\ abort_pc = [t \in {"ui", "main"} |-> "idle"]
    /\ websocket = 0
    /\ connected = FALSE
    /\ hello_received = 0
    /\ ev_set = {}
    /\ open_conns = {}
    /\ handlers = {}
    /\ conn_attempts = {}
    /\ next_conn = 1
    /\ sends = 0
    /\ closes = 0
    /\ ab = [calls |-> 0, spawned |-> 0, idle |-> 0]
    /\ opened_cb = [c \in ConnIds |-> 0]
    /\ events_left = MaxEvents
    /\ faults_left = 0
    /\ last = "-"
    /\ scen = -1
    /\ scen_trace = <<>>
    /\ watch = "-"
    /\ frame_duration = 60
    /\ max_queue_size = queue_maxsize(60)
    /\ stream_lock = "free"
    /\ stream_pc = [t \in {"main", "trigger"} |-> "idle"]
    /\ audio_input_event = FALSE
    /\ audio_sends = 0

\* set_device_state(s) called on the controller loop
SetDeviceState(s) ==
    /\ events_left > 0
    /\ Commit([set_device_state(Event(S), s)
                EXCEPT !.last = IF s = device_state THEN "same_state"
                                ELSE IF is_input_paused THEN "input_was_paused"
                                ELSE "-"])

\* AudioCodec.pause_input
PauseInput ==
    /\ events_left > 0
    /\ ~is_input_paused
    /\ Commit([Event(S) EXCEPT !.is_input_paused = TRUE])

\* wake_word_detector.pause(), as toggle_chat_state and the wake-word handlers
\* call it whatever the device state
DetectorPause ==
    /\ events_left > 0
    /\ wake_word_detector # "none"
    /\ ~wwd_paused
    /\ Commit(wwd_pause(Event(S)))

NextState ==
    \/ \E s \in DeviceState : SetDeviceState(s)
    \/ PauseInput
    \/ DetectorPause

\* ============================================================ specifications
\* after construction
FreshInit ==
    /\ SchedInit
    /\ QueueInit
    /\ CtlInit

\* at rest in SPEAKING
SpeakInit ==
    /\ SchedInit
    /\ QueueInit
    /\ CtlSpeakInit

Init == FreshInit \/ SpeakInit

SpecSched == FreshInit /\ [][NextSched]_vars

SpecQueue == FreshInit /\ [][NextQueue]_vars

Spec == Init /\ [][Next]_vars

SpecSpeaking == SpeakInit /\ [][Next]_vars

StateInit ==
    /\ SchedInit
    /\ QueueInit
    /\ CtlStateInit

SpecState == StateInit /\ [][NextState]_vars

\* ------------------------------------------------ the codec and its streams
\* an AudioCodec about to be built for some frame duration, the device in
\* SPEAKING once it is
CodecInit ==
    /\ SchedInit
    /\ QueueInit
    /\ \E kl \in BOOLEAN : Speaking(kl)
    /\ events_left = 0
    /\ faults_left = 0
    /\ last = "-"
    /\ scen = -1
    /\ scen_trace = <<>>
    /\ watch = "-"
    /\ frame_duration \in 1..MaxFrameDuration
    /\ max_queue_size = 0
    /\ stream_lock = "free"
    /\ stream_pc = [t \in {"main", "trigger"} |->
                      IF t = "main" THEN "new" ELSE "idle"]
    /\ audio_input_event = FALSE
    /\ audio_sends = 0

\* AudioCodec.__init__
CodecConstruct ==
    /\ stream_pc["main"] = "new"
    /\ max_queue_size' = queue_maxsize(frame_duration)
    /\ stream_pc' = [stream_pc EXCEPT !["main"] = "idle"]
    /\ UNCHANGED <<frame_duration, stream_lock>>
    /\ UNCHANGED <<schedVars, queueVars, appVars, protoVars, envVars, obsVars,
                   inputVars>>

\* play_audio on the controller loop: `with self._stream_lock:` entered for
\* output_stream.write
StreamLockAcquire ==
    /\ device_state = SPEAKING
    /\ stream_pc["main"] = "idle"
    /\ stream_lock = "free"
    /\ stream_lock' = "main"
    /\ stream_pc' = [stream_pc EXCEPT !["main"] = "write"]
    /\ UNCHANGED <<frame_duration, max_queue_size>>
    /\ UNCHANGED <<schedVars, queueVars, appVars, protoVars, envVars, obsVars,
                   inputVars>>

\* play_audio: the write returns and the lock is released; or it raises
\* OSError("Stream closed"), the `with` is left and the handler calls
\* _reinitialize_stream(is_input=False)
StreamLockedStep ==
    \E closed \in BOOLEAN :
      /\ stream_pc["main"] = "write"
      /\ stream_lock = "main"
      /\ stream_lock' = "free"
      /\ stream_pc' = [stream_pc EXCEPT !["main"] =
                          IF closed THEN "reinit_out" ELSE "idle"]
      /\ UNCHANGED <<frame_duration, max_queue_size>>
      /\ UNCHANGED <<schedVars, queueVars, appVars, protoVars, envVars,
                     obsVars, inputVars>>

\* _reinitialize_stream called from outside the codec: by _handle_tts_stop on
\* the controller loop for the input stream, by _audio_output_event_trigger
\* (the output stream found inactive, start_stream raising) for the output
\* stream
ReinitUnlocked(t) ==
    /\ device_state = SPEAKING
    /\ stream_pc["main"] # "new"
    /\ stream_pc[t] = "idle"
    /\ stream_pc' = [stream_pc EXCEPT ![t] = IF t = "main" THEN "reinit_in"
                                             ELSE "reinit_out"]
    /\ UNCHANGED <<frame_duration, max_queue_size, stream_lock>>
    /\ UNCHANGED <<schedVars, queueVars, appVars, protoVars, envVars, obsVars,
                   inputVars>>

\* _reinitialize_stream returns
ReinitDone(t) ==
    /\ stream_pc[t] \in {"reinit_in", "reinit_out"}
    /\ stream_pc' = [stream_pc EXCEPT ![t] = "idle"]
    /\ UNCHANGED <<frame_duration, max_queue_size, stream_lock>>
    /\ UNCHANGED <<schedVars, queueVars, appVars, protoVars, envVars, obsVars,
                   inputVars>>

SpecCodec ==
    /\ CodecInit
    /\ [][\/ CodecConstruct
          \/ StreamLockAcquire
          \/ StreamLockedStep
          \/ \E t \in {"main", "trigger"} : ReinitUnlocked(t)
          \/ \E t \in {"main", "trigger"} : ReinitDone(t)]_vars

\* ------------------------------------- abort_speaking, statement by statement
\* abort_callback on the UI thread enters abort_speaking:
\* `if self.aborted: return`
UiAbortCheck ==
    /\ abort_pc["ui"] = "idle"
    /\ events_left > 0
    /\ Commit(IF aborted THEN Event(S)
              ELSE [Event(S) EXCEPT !.abort_pc["ui"] = "passed"])

\* _handle_wake_word_detected on the controller loop: in SPEAKING it enters
\* abort_speaking, `if self.aborted: return`; in the other states it runs to
\* its end
WakeAbortCheck ==
    /\ Running("handle_wake_word_detected")
    /\ abort_pc["main"] = "idle"
    /\ Commit(CASE device_state # SPEAKING ->
                     handle_wake_word_detected(PopTask(S))
                [] device_state = SPEAKING /\ aborted -> PopTask(S)
                [] OTHER -> [S EXCEPT !.abort_pc["main"] = "passed"])

\* abort_speaking from `self.aborted = True` to its end, on thread t; the
\* controller loop then returns from its task
AbortProceed(t) ==
    /\ abort_pc[t] = "passed"
    /\ LET a == abort_speaking_unguarded([S EXCEPT !.abort_pc[t] = "idle"],
                                         WAKE_WORD_DETECTED)
       IN  Commit(IF t = "main" THEN PopTask(a) ELSE a)

\* two threads in abort_speaking while the device is SPEAKING, the
\* process_abort threads they start and the controller loop running what those
\* schedule
SpecAbort ==
    /\ SpeakInit
    /\ [][\/ UiAbortCheck
          \/ WakeWordDetected
          \/ WakeAbortCheck
          \/ \E t \in {"ui", "main"} : AbortProceed(t)
          \/ AbortSendDone
          \/ AbortSchedule
          \/ AbortRetoggle
          \/ LoopTick
          \/ LoopSkipSchedule
          \/ LoopSkipOutput
          \/ RunSetDeviceState
          \/ RunToggleChatState
          \/ RunToggleImpl]_vars

\* ------------------------------------------------------ the microphone path
\* _audio_input_event_trigger, with an input stream in place
InputTrigger ==
    /\ device_state = LISTENING
    /\ ~audio_input_event
    /\ Commit([S EXCEPT !.audio_input_event = TRUE])

\* _main_loop finds AUDIO_INPUT_READY_EVENT set (it comes after SCHEDULE_EVENT
\* and before AUDIO_OUTPUT_READY_EVENT in self.events) and clears it
HandleInputAudio ==
    \E got \in BOOLEAN :
      /\ loop_pc = "poll_out"
      /\ audio_input_event
      /\ audio_sends < MaxAudioSends
      /\ Commit(handle_input_audio([S EXCEPT !.audio_input_event = FALSE],
                                   got))

\* a submitted send_audio coroutine runs
DoSendAudio ==
    \E fails \in BOOLEAN :
      /\ audio_sends > 0
      /\ fails => /\ CanFault(1)
                  /\ is_audio_channel_opened(S)
                  /\ websocket \in open_conns
      /\ Commit(send_audio([Fault(S, B2N(fails)) EXCEPT !.audio_sends = @ - 1],
                           fails))

\* the microphone path from the device at rest on an open channel: the
\* controller loop changes the device state (SetDeviceState stands for its
\* tasks), passes over its events and handles the input event; the trigger
\* thread sets that event; the protocol loop runs the sends and closes handed to
\* it; the peer may close the connection
SpecInput ==
    /\ SpeakInit
    /\ [][\/ \E s \in DeviceState : SetDeviceState(s)
          \/ LoopTick
          \/ LoopSkipSchedule
          \/ LoopSkipOutput
          \/ RunSetDeviceState
          \/ InputTrigger
          \/ HandleInputAudio
          \/ DoSendAudio
          \/ DoClose
          \/ RemoteClose]_vars

\* a step of the thread running _main_loop
MainLoopStep ==
    \/ LoopTick
    \/ LoopSkipSchedule
    \/ HandleOutputAudio
    \/ LoopSkipOutput
    \/ RunSetDeviceState
    \/ RunRestartDetector
    \/ RunTtsStart
    \/ RunTtsStop
    \/ RunStartListening
    \/ MainOpenResult
    \/ RunStopListening
    \/ RunToggleImpl
    \/ RunToggleChatState
    \/ RunWakeWord
    \/ RunDelayedStateChange
    \/ DrainPoll
    \/ DrainEnd

\* a step of a process_abort thread whose waits end by themselves
AbortStep ==
    \/ AbortSendDone
    \/ AbortSchedule
    \/ AbortRetoggle

\* the threads keep running, and the protocol loop runs a close handed to it
FairSpecSpeaking ==
    /\ SpecSpeaking
    /\ WF_vars(MainLoopStep)
    /\ WF_vars(AbortStep)
    /\ WF_vars(DoClose)

\* ==================================================================== claims

\* C1: for every interleaving of schedule() calls with controller-loop steps,
\* the tasks run so far are exactly the first tasks enqueued, each once and in
\* enqueue order, whether or not earlier ones raised; and whenever the loop is
\* back at its poll with the schedule flag clear and no schedule() call half
\* done, every task enqueued so far has been run.
C1_FifoExactlyOnce ==
    /\ \A i \in 1..Len(executed) : executed[i] = i
    /\ Len(executed) <= next_id - 1
    /\ ( /\ loop_pc = "poll"
         /\ ~sched_event
         /\ \A p \in Producers : prod_pc[p] = "idle" )
       => Len(executed) = next_id - 1

\* C1 witness: a task raised, a later-enqueued task has run after it, and all
\* tasks have run
C1_Witness ==
    /\ 1 \in raised
    /\ Len(executed) = MaxTasks
    /\ loop_pc = "poll"

\* C2: the playback queue never holds more than its capacity; a write_audio
\* that finds the queue full and is not overtaken by the consumer leaves the
\* queue as it found it minus the oldest entry plus the new frame at the end;
\* with pushes only, the queue holds the last QueueCap frames pushed, in order
\* (for capacity 3 and pushes 1..5: 3,4,5).
C2_Bounded == Len(audio_decode_queue) <= QueueCap

C2_PushOnFull ==
    ( /\ wr_pc = "put"
      /\ wr_pc' = "idle"
      /\ wr_clean
      /\ Len(wr_start) = QueueCap )
    => audio_decode_queue' = Append(Tail(wr_start), wr_data)

C2_LastPushes ==
    ( /\ ~consumed
      /\ wr_pc = "idle"
      /\ next_frame - 1 >= QueueCap )
    => audio_decode_queue =
         [i \in 1..QueueCap |-> (next_frame - 1) - QueueCap + i]

C2_DropOldest ==
    /\ []C2_Bounded
    /\ [][C2_PushOnFull]_vars
    /\ []C2_LastPushes

\* C2 witness: all frames pushed onto a queue that was full, nothing consumed
C2_Witness ==
    /\ ~consumed
    /\ wr_pc = "idle"
    /\ next_frame - 1 = MaxFrames
    /\ Len(wr_start) = QueueCap
    /\ Len(audio_decode_queue) = QueueCap
    /\ audio_decode_queue[QueueCap] = MaxFrames

\* C3: between two tts starts, however often abort_speaking is called and with
\* whatever reasons, one process_abort thread is started (it hands one abort
\* message to the protocol loop) and it makes one IDLE request; once a call
\* has been made the aborted flag stays set, and a call that finds it set
\* changes no state and starts nothing.
C3_AbortOnce ==
    /\ ab.spawned <= 1
    /\ ab.idle <= ab.spawned
    /\ ab.calls >= 1 =>
         /\ aborted
         /\ ab.spawned = 1
         /\ (\A w \in workers : ~w.fresh) => ab.idle = 1
         /\ \A r \in {NONE, WAKE_WORD_DETECTED} :
              [abort_speaking(S, r) EXCEPT !.ab = ab] = S

\* C3 witness: abort_speaking was called twice while SPEAKING, the one thread
\* has sent and made its IDLE request
C3_Witness ==
    /\ ab.calls = 2
    /\ ab.spawned = 1
    /\ ab.idle = 1
    /\ workers = {}
    /\ device_state = SPEAKING

\* C4: a connect() that ends by the handshake timeout has returned false and
\* has invoked the network-error callback once, also when sending its client
\* hello failed.
C4_TimeoutReportsOnce ==
    \A a \in conn_attempts :
      (a.pc = "done" /\ a.how = "timeout") => (a.res = "false" /\ a.nerr = 1)

\* C5: set_device_state(s) run while the device state is s changes nothing but
\* the task list it was taken from: not the state, not the detector, not what
\* the observers saw; and it emits no display update and no notification.
C5_Step ==
    ( /\ Running("set_device_state")
      /\ Head(tasks).arg = device_state
      /\ tasks' = Tail(tasks) )
    => UNCHANGED <<main_tasks, sched_event, audio_decode_queue, appVars,
                   protoVars, envVars, ab, opened_cb, scen, scen_trace>>

C5_NoEffects == set_device_state(S, device_state) = S

C5_SameStateNoOp == [][C5_Step]_vars /\ []C5_NoEffects

\* C5 witness: set_device_state(IDLE) has run in IDLE with the detector
\* paused, which the entry action of IDLE would have resumed
C5_Witness ==
    /\ last = "same_state"
    /\ device_state = IDLE
    /\ wwd_paused

\* C6: from IDLE with the channel closed, a start_listening() whose channel
\* open succeeds, then a tts start received at rest in LISTENING, then a tts
\* stop received at rest in SPEAKING with keep_listening false and the queue
\* empty: the states entered are CONNECTING, LISTENING, SPEAKING, IDLE in this
\* order and no other; at rest after each step the sequence is complete up to
\* that step.
C6_Sequence == <<CONNECTING, LISTENING, SPEAKING, IDLE>>

C6_EndToEnd ==
    scen >= 1 =>
      /\ Len(scen_trace) <= scen
      /\ scen_trace = SubSeq(C6_Sequence, 1, Len(scen_trace))
      /\ device_state = IF scen_trace = <<>> THEN IDLE
                        ELSE scen_trace[Len(scen_trace)]
      /\ (scen >= 2 /\ Settled(S)) => Len(scen_trace) = scen
      /\ scen = 1 => scen_trace = <<>>
      /\ scen = 3 => Len(scen_trace) >= 2
      /\ scen = 4 => Len(scen_trace) >= 3

\* C6 witness: the scenario has run to its end
C6_Witness ==
    /\ scen = 4
    /\ Settled(S)
    /\ scen_trace = C6_Sequence
    /\ device_state = IDLE

\* C7 as stated: _handle_wake_word_detected run in SPEAKING leaves the playback
\* queue empty when it returns, which is before the abort message it asked
\* for can have been sent, and the device state becomes IDLE afterwards.
WakeInSpeaking ==
    /\ Running("handle_wake_word_detected")
    /\ device_state = SPEAKING
    /\ tasks' = Tail(tasks)

AbortSendPending ==
    \E w \in workers :
      /\ w.kind = "process_abort"
      /\ w.pc = "wait"
      /\ w.reason = WAKE_WORD_DETECTED

C7_EventuallyIdle ==
    (Running("handle_wake_word_detected") /\ device_state = SPEAKING)
      ~> (device_state = IDLE)

C8_MalformedDropped ==
    [][last' = "malformed" =>
         UNCHANGED <<main_tasks, sched_event, tasks, loop_pc,
                     audio_decode_queue, appVars, protoVars, ab,
                     opened_cb>>]_vars

\* C8 witness: a malformed message was received on the open channel while
\* LISTENING
C8_Witness ==
    /\ last = "malformed"
    /\ device_state = LISTENING
    /\ connected
    /\ websocket \in LiveConns

\* C9: the client never holds two open transport connections with running
\* dispatch loops.
C9_AtMostOneSession == Cardinality(LiveConns) <= 1

\* C10: the audio-channel-opened callback is invoked at most once per
\* connection; a connect() that returned true has the channel marked connected
\* and its connection's callback invoked once; a connect() that returned false
\* has not had its connection's callback invoked.
C10_OpenedOncePerConnect ==
    /\ \A c \in ConnIds : opened_cb[c] <= 1
    /\ \A a \in conn_attempts :
         a.pc = "done" =>
           CASE a.how = "hello" -> connected /\ opened_cb[a.id] = 1
             [] a.res = "false" -> opened_cb[a.id] = 0
             [] OTHER -> TRUE

\* C11: whenever is_audio_channel_opened() is true, the connection the
\* protocol holds has received the server hello of its handshake and is
\* neither closed nor without its dispatch loop.
C11_OpenOnlyAfterHandshake ==
    is_audio_channel_opened(S) =>
      (opened_cb[websocket] >= 1 /\ websocket \in LiveConns)

\* C12: a close_audio_channel() that finds the channel open closes the
\* transport, marks the channel closed and makes the audio-channel-closed
\* callback (which clears keep_listening and requests IDLE); one that finds the
\* channel not open changes nothing and makes no callback.
C12_CloseIdempotent ==
    [][closes' = closes - 1 =>
         IF is_audio_channel_opened(S)
           THEN /\ websocket' = 0
                /\ ~connected'
                /\ websocket \notin open_conns'
                /\ ~keep_listening'
                /\ main_tasks' = Append(main_tasks, SetStateTask(IDLE))
           ELSE UNCHANGED <<main_tasks, sched_event, appVars, websocket,
                            connected, hello_received, ev_set, open_conns,
                            handlers, conn_attempts, next_conn, sends>>]_vars

\* C13: a send_text whose websocket.send raises leaves no transport held and
\* the channel marked closed, and has made the audio-channel-closed and the
\* network-error callbacks; so for the send_text the protocol loop has just
\* run: keep_listening is cleared and IDLE is requested.
C13_FailedSend ==
    websocket # 0 =>
      LET st == send_text(S, TRUE)
      IN  /\ st.websocket = 0
          /\ ~st.connected
          /\ ~is_audio_channel_opened(st)
          /\ ~st.keep_listening
          /\ st.main_tasks # <<>>
          /\ st.main_tasks[Len(st.main_tasks)] = SetStateTask(IDLE)
          /\ \E i \in DOMAIN st.fx : st.fx[i] = <<"cb", "network_error">>
          /\ \E i \in DOMAIN st.fx : st.fx[i] = <<"cb", "channel_closed">>

C14_Routing ==
    \A c \in LiveConns : \A k \in MessageKinds :
      LET r == message_handler(S, c, k)
          audio == Cardinality({i \in DOMAIN r.fx :
                                  r.fx[i] = <<"cb", "incoming_audio">>})
          json == Cardinality({i \in DOMAIN r.fx :
                                 r.fx[i] = <<"cb", "incoming_json">>})
      IN  /\ c \in r.handlers
          /\ CASE k = "binary" -> audio = 1 /\ json = 0
                [] k = "hello" ->
                     /\ audio = 0
                     /\ json = 0
                     /\ r.ev_set = ev_set \cup {hello_received}
                [] k = "bad_hello" -> audio = 0 /\ json = 0
                [] k = "malformed" -> audio = 0 /\ json = 0
                [] OTHER -> audio = 0 /\ json = 1

\* C15: every step that changes the device state is a step of the controller
\* loop running a scheduled task (the one it takes from its list).
C15_OnlyLoopSetsState ==
    [][device_state' # device_state =>
         /\ loop_pc = "run"
         /\ tasks # <<>>
         /\ tasks' = Tail(tasks)]_vars

\* C16: every change of the device state is one of IDLE->CONNECTING,
\* CONNECTING->LISTENING, CONNECTING->IDLE, LISTENING->IDLE,
\* LISTENING->SPEAKING, IDLE->SPEAKING, SPEAKING->IDLE, SPEAKING->LISTENING.
C16_Transitions ==
    {<<IDLE, CONNECTING>>, <<CONNECTING, LISTENING>>, <<CONNECTING, IDLE>>,
     <<LISTENING, IDLE>>, <<LISTENING, SPEAKING>>, <<IDLE, SPEAKING>>,
     <<SPEAKING, IDLE>>, <<SPEAKING, LISTENING>>}

C16_OnlyListedTransitions ==
    [][device_state' # device_state =>
         <<device_state, device_state'>> \in C16_Transitions]_vars

\* C17: a set_device_state that changes the state leaves, on entering
\* LISTENING, the detector (if any) paused and the audio input not paused; on
\* entering IDLE, the detector not paused and the audio input not paused; on
\* entering SPEAKING, the detector not paused; on entering CONNECTING, the
\* detector and the input-paused flag as they were.
C17_EntryEffects ==
    [][device_state' # device_state =>
         CASE device_state' = LISTENING ->
                /\ wake_word_detector # "none" => wwd_paused'
                /\ ~is_input_paused'
           [] device_state' = IDLE ->
                /\ ~wwd_paused'
                /\ ~is_input_paused'
           [] device_state' = SPEAKING ->
                /\ ~wwd_paused'
                /\ is_input_paused' = is_input_paused
           [] device_state' = CONNECTING ->
                /\ wwd_paused' = wwd_paused
                /\ is_input_paused' = is_input_paused]_vars

\* C17 witness: LISTENING has just been entered with the audio input paused
\* and the detector running
C17_Witness ==
    /\ last = "input_was_paused"
    /\ device_state = LISTENING
    /\ wwd_paused
    /\ ~is_input_paused

\* C18: _handle_tts_start leaves the aborted flag false, is_tts_playing true
\* and the playback queue empty, and requests SPEAKING exactly when the device
\* state is IDLE or LISTENING; and the device enters SPEAKING from IDLE or
\* LISTENING only.
C18_Handled ==
    [][(Running("handle_tts_start") /\ tasks' = Tail(tasks)) =>
         /\ ~aborted'
         /\ is_tts_playing'
         /\ audio_decode_queue' = <<>>
         /\ main_tasks' = IF device_state \in {IDLE, LISTENING}
                            THEN Append(main_tasks, SetStateTask(SPEAKING))
                            ELSE main_tasks
         /\ device_state' = device_state]_vars

C18_EntersSpeaking ==
    [][(device_state' = SPEAKING /\ device_state # SPEAKING) =>
         device_state \in {IDLE, LISTENING}]_vars

C18_TtsStart == C18_Handled /\ C18_EntersSpeaking

\* C19: whenever the controller loop is about to run _handle_tts_start, the
\* handler reinitializes the input stream (and so can fall back to IDLE when
\* that fails).
C19_TtsStartReinitializes ==
    Running("handle_tts_start") =>
      LET r == handle_tts_start(PopTask(S))
      IN  \E i \in DOMAIN r.fx : r.fx[i] = <<"reinit", "input">>

\* C20: _handle_tts_stop run in a state other than SPEAKING changes nothing;
\* run in SPEAKING it schedules the drain and changes neither the device
\* state nor is_tts_playing.  The drain counts its polls one by one, never
\* beyond max_wait_attempts, and always comes to its end; at its end
\* is_tts_playing is false and, with keep_listening set, a start-listening
\* message is handed to the protocol and LISTENING is requested, otherwise
\* IDLE is requested, and the device then gets to the state requested.
C20_Handled ==
    [][(Running("handle_tts_stop") /\ tasks' = Tail(tasks)) =>
         IF device_state = SPEAKING
           THEN /\ main_tasks' = Append(main_tasks,
                                        Task("delayed_state_change"))
                /\ device_state' = device_state
                /\ is_tts_playing' = is_tts_playing
           ELSE UNCHANGED <<main_tasks, sched_event, audio_decode_queue,
                            appVars, protoVars, ab, opened_cb>>]_vars

C20_DrainBounded ==
    /\ [](attempts <= max_wait_attempts)
    /\ [][(loop_pc = "drain" /\ loop_pc' = "drain" /\ attempts' # attempts) =>
            (attempts < max_wait_attempts /\ attempts' = attempts + 1)]_vars

C20_DrainEnd ==
    [][(loop_pc = "drain" /\ loop_pc' # "drain") =>
         /\ ~is_tts_playing'
         /\ device_state' = device_state
         /\ IF keep_listening
              THEN /\ sends' = sends + 1
                   /\ main_tasks' = Append(main_tasks,
                                           SetStateTask(LISTENING))
              ELSE /\ sends' = sends
                   /\ main_tasks' = Append(main_tasks, SetStateTask(IDLE))]_vars

C20_DrainTerminates == (loop_pc = "drain") ~> (loop_pc # "drain")

\* the request made at the end of the drain is run: the device gets to
\* LISTENING, or to IDLE
C20_DeviceGoes ==
    /\ (last \in {"drain_timeout", "drained"} /\ keep_listening)
         ~> (device_state = LISTENING)
    /\ (last \in {"drain_timeout", "drained"} /\ ~keep_listening)
         ~> (device_state = IDLE)

C20_TtsStop ==
    /\ C20_Handled
    /\ C20_DrainBounded
    /\ C20_DrainEnd
    /\ C20_DrainTerminates
    /\ C20_DeviceGoes

\* C20 witness: the drain has polled max_wait_attempts times on a queue that
\* did not empty, and ended with keep_listening set
C20_Witness ==
    /\ last = "drain_timeout"
    /\ ~is_tts_playing
    /\ keep_listening
    /\ audio_decode_queue # <<>>
    /\ sends > 0
    /\ main_tasks # <<>>
    /\ main_tasks[Len(main_tasks)] = SetStateTask(LISTENING)

\* C21: after a tts stop handled in SPEAKING with at most one playback batch
\* queued, nothing else pending and nothing arriving afterwards, the drain
\* ends only when the queue has been played, and the queue is empty when the
\* device state leaves SPEAKING.
C21_DrainWaitsForPlayback ==
    /\ [][(watch = "drain" /\ loop_pc = "drain" /\ loop_pc' # "drain")
            => audio_decode_queue = <<>>]_vars
    /\ [][(watch = "drain" /\ device_state = SPEAKING
            /\ device_state' # SPEAKING)
            => audio_decode_queue = <<>>]_vars

\* C22: _start_listening_impl run in CONNECTING or LISTENING starts no
\* connect, hands nothing to the protocol loop and schedules nothing; run in
\* SPEAKING it does what abort_speaking does (once: nothing when already
\* aborted) and schedules nothing; run in IDLE on a closed channel, when the
\* open returns false or its wait expires, it alerts, hands no message to the
\* protocol loop and requests IDLE, and the device then gets to IDLE.
C22_Elsewhere ==
    [][(Running("start_listening_impl") /\ tasks' = Tail(tasks)
        /\ device_state \in {CONNECTING, LISTENING})
       => UNCHANGED <<main_tasks, sched_event, device_state, conn_attempts,
                      next_conn, sends, closes, workers, websocket, connected,
                      audio_decode_queue, aborted>>]_vars

C22_InSpeaking ==
    [][(Running("start_listening_impl") /\ tasks' = Tail(tasks)
        /\ device_state = SPEAKING)
       => /\ UNCHANGED <<main_tasks, device_state, conn_attempts, sends,
                         closes>>
          /\ aborted'
          /\ audio_decode_queue' = IF aborted THEN audio_decode_queue ELSE <<>>
          /\ IF aborted THEN workers' = workers
             ELSE /\ ~is_tts_playing'
                  /\ \E w \in workers' \ workers :
                       /\ w.kind = "process_abort"
                       /\ w.reason = WAKE_WORD_DETECTED
                       /\ workers' = workers \cup {w}]_vars

C22_OpenFails ==
    [][(loop_pc = "open_wait" /\ loop_pc' # "open_wait"
        /\ ~\E a \in conn_attempts :
              a.id = wait_att /\ a.pc = "done" /\ a.res = "true")
       => /\ sends' = sends
          /\ main_tasks' = Append(main_tasks, SetStateTask(IDLE))
          /\ LET r == start_listening_opened(S, FALSE)
             IN  /\ \E i \in DOMAIN r.fx : r.fx[i] = <<"alert">>
                 /\ \A i \in DOMAIN r.fx : r.fx[i][1] # "submit"]_vars

C22_BackToIdle ==
    (last \in {"open_failed", "open_timeout"}) ~> (device_state = IDLE)

C22_ManualStart ==
    /\ C22_Elsewhere
    /\ C22_InSpeaking
    /\ C22_OpenFails
    /\ C22_BackToIdle

\* C22 witness: the wait for the open has just expired; CONNECTING is still
\* to be entered and IDLE is requested after it
C22_Witness ==
    /\ last = "open_timeout"
    /\ sends = 0
    /\ main_tasks # <<>>
    /\ main_tasks[Len(main_tasks)] = SetStateTask(IDLE)
    /\ main_tasks[1] = SetStateTask(CONNECTING)

\* C23: _toggle_chat_state_impl run in IDLE requests CONNECTING and, on an
\* open channel, sets keep_listening, hands a start-listening message to the
\* protocol loop and requests LISTENING; on a closed channel it starts a
\* connect, and when that returns true the connect_and_listen thread does the
\* same.  Run in SPEAKING it does what abort_speaking(NONE) does.  Run in
\* LISTENING it hands the close to the protocol loop and requests IDLE in the
\* same step, the channel being as it was; and when it was run with nothing
\* else pending and nothing has come from outside since, keep_listening is
\* false once the close and the request have been run.
C23_InIdle ==
    [][(Running("toggle_chat_state_impl") /\ tasks' = Tail(tasks)
        /\ device_state = IDLE)
       => IF is_audio_channel_opened(S)
            THEN /\ keep_listening'
                 /\ sends' = sends + 1
                 /\ main_tasks' = main_tasks \o <<SetStateTask(CONNECTING),
                                                   SetStateTask(LISTENING)>>
                 /\ UNCHANGED <<conn_attempts, workers>>
            ELSE /\ main_tasks' = Append(main_tasks, SetStateTask(CONNECTING))
                 /\ sends' = sends
                 /\ \E a \in conn_attempts' \ conn_attempts :
                      \E w \in workers' \ workers :
                        /\ a.pc = "start"
                        /\ w.kind = "connect_and_listen"
                        /\ w.att = a.id]_vars

C23_Connected ==
    [][(/\ \E w \in workers \ workers' : \E a \in conn_attempts :
              /\ w.kind = "connect_and_listen"
              /\ a.id = w.att
              /\ a.pc = "done"
              /\ a.res = "true"
        /\ faults_left' = faults_left)
       => /\ keep_listening'
          /\ sends' = sends + 1
          /\ main_tasks' = Append(main_tasks, SetStateTask(LISTENING))]_vars

C23_InSpeaking ==
    [][(Running("toggle_chat_state_impl") /\ tasks' = Tail(tasks)
        /\ device_state = SPEAKING)
       => /\ UNCHANGED <<main_tasks, device_state, conn_attempts, sends,
                         closes, keep_listening>>
          /\ aborted'
          /\ IF aborted THEN workers' = workers
             ELSE /\ ~is_tts_playing'
                  /\ audio_decode_queue' = <<>>
                  /\ \E w \in workers' \ workers :
                       /\ w.kind = "process_abort"
                       /\ w.reason = NONE
                       /\ workers' = workers \cup {w}]_vars

C23_InListening ==
    [][(Running("toggle_chat_state_impl") /\ tasks' = Tail(tasks)
        /\ device_state = LISTENING)
       => /\ main_tasks' = Append(main_tasks, SetStateTask(IDLE))
          /\ closes' = closes + 1
          /\ UNCHANGED <<device_state, websocket, connected, open_conns,
                         sends>>]_vars

C23_KeepListeningEnds ==
    [](watch = "toggle" /\ Settled(S) => ~keep_listening)

C23_Toggle ==
    /\ C23_InIdle
    /\ C23_Connected
    /\ C23_InSpeaking
    /\ C23_InListening
    /\ C23_KeepListeningEnds

\* C24: from the return of abort_speaking until the next tts start is handled
\* (that is, while aborted is set) the playback queue is empty, so that no
\* frame is played.
C24_NoAudioAfterAbort == aborted => audio_decode_queue = <<>>

\* C25: a process_abort thread, having requested IDLE, goes on to ask for the
\* toggle exactly when its reason is WAKE_WORD_DETECTED, keep_listening is set
\* and the channel is open; nothing else asks for toggle_chat_state on the
\* controller loop.  When it asks with nothing but its IDLE request pending,
\* and nothing comes from outside, the device goes from SPEAKING to IDLE, then
\* CONNECTING, then LISTENING, where it is, with keep_listening set, once
\* everything has been run.
C25_Decision ==
    [][\A w \in workers :
         (/\ w.kind = "process_abort"
          /\ w.pc = "sched"
          /\ ~\E v \in workers' : v.id = w.id /\ v.pc = "sched") =>
           /\ main_tasks' = Append(main_tasks, SetStateTask(IDLE))
           /\ IF /\ w.reason = WAKE_WORD_DETECTED
                 /\ keep_listening
                 /\ is_audio_channel_opened(S)
                THEN \E v \in workers' : v.id = w.id /\ v.pc = "retoggle"
                ELSE ~\E v \in workers' : v.id = w.id]_vars

C25_OnlyRetoggle ==
    [][IF \E w \in workers :
            w.pc = "retoggle" /\ ~\E v \in workers' : v.id = w.id
         THEN main_tasks' = Append(main_tasks, Task("toggle_chat_state"))
         ELSE \A i \in DOMAIN main_tasks' :
                main_tasks'[i] = Task("toggle_chat_state") =>
                  (i \in DOMAIN main_tasks /\ main_tasks[i] = main_tasks'[i])]_vars

C25_IdleThenListening ==
    /\ [][(watch \in {"abort", "retoggle"} /\ watch' \in {"abort", "retoggle"}
            /\ device_state' # device_state) =>
             <<device_state, device_state'>> \in
               {<<SPEAKING, IDLE>>, <<IDLE, CONNECTING>>,
                <<CONNECTING, LISTENING>>}]_vars
    /\ [](watch \in {"abort", "retoggle"} /\ Settled(S) =>
            watch = "retoggle" /\ device_state = LISTENING /\ keep_listening)

C25_Retoggle ==
    /\ C25_Decision
    /\ C25_OnlyRetoggle
    /\ C25_IdleThenListening

\* C25 witness: the toggle asked for by process_abort has brought the device
\* to LISTENING and nothing is pending
C25_Witness ==
    /\ watch = "retoggle"
    /\ Settled(S)
    /\ device_state = LISTENING
    /\ keep_listening
    /\ ab.spawned = 1

\* C26: _on_network_error, in whatever state it is called (by a failing
\* send_text after its close too), leaves keep_listening false and the
\* wake-word detector not paused, has requested IDLE, and has issued a close of
\* the channel if and only if the device state it read was not CONNECTING; so
\* it is for the dispatch loop that has just ended on a read error; and an IDLE
\* request is always followed by the device being in IDLE.
C26_Callback ==
    \A st \in {S, close_audio_channel(S)} :
      LET r == on_network_error(st)
      IN  /\ ~r.keep_listening
          /\ r.wake_word_detector # "none" => ~r.wwd_paused
          /\ r.main_tasks # <<>>
          /\ r.main_tasks[Len(r.main_tasks)] = SetStateTask(IDLE)
          /\ r.closes = st.closes + (IF st.device_state # CONNECTING
                                       THEN 1 ELSE 0)

C26_AtReadError ==
    [][last' \in {"read_error", "non_object"} =>
         /\ ~keep_listening'
         /\ wake_word_detector' # "none" => ~wwd_paused'
         /\ main_tasks' # <<>>
         /\ main_tasks'[Len(main_tasks')] = SetStateTask(IDLE)
         /\ closes' = closes + (IF device_state # CONNECTING THEN 1 ELSE 0)
         /\ device_state' = device_state]_vars

C26_IdleRequested ==
    \E i \in DOMAIN main_tasks : main_tasks[i] = SetStateTask(IDLE)

C26_NetworkError ==
    /\ []C26_Callback
    /\ C26_AtReadError
    /\ C26_IdleRequested ~> (device_state = IDLE)

\* C26 witness: the dispatch loop has just ended on a read error while the
\* device was CONNECTING, and no close has been issued
C26_Witness ==
    /\ last = "read_error"
    /\ device_state = CONNECTING
    /\ closes = 0
    /\ ~keep_listening
    /\ C26_IdleRequested

\* C27: _on_audio_channel_closed, in whatever state it is called, leaves
\* keep_listening false and has requested IDLE; a detector that was running is
\* running and not paused, one that was not running has been started and is
\* running and not paused, or is gone because its start failed; with no
\* detector there is none.  So it is when the peer has just closed the
\* connection, and the device is then eventually in IDLE.
C27_Callback ==
    LET r == on_audio_channel_closed(S)
    IN  /\ ~r.keep_listening
        /\ r.main_tasks # <<>>
        /\ r.main_tasks[Len(r.main_tasks)] = SetStateTask(IDLE)
        /\ r.device_state = device_state
        /\ IF wake_word_detector \in {"none", "broken"}
             THEN r.wake_word_detector = "none"
             ELSE r.wake_word_detector = "running" /\ ~r.wwd_paused

C27_AtRemoteClose ==
    [][last' = "remote_close" =>
         /\ ~keep_listening'
         /\ main_tasks' = Append(main_tasks, SetStateTask(IDLE))
         /\ IF wake_word_detector \in {"none", "broken"}
              THEN wake_word_detector' = "none"
              ELSE wake_word_detector' = "running" /\ ~wwd_paused']_vars

C27_ChannelClosed ==
    /\ []C27_Callback
    /\ C27_AtRemoteClose
    /\ (last = "remote_close") ~> (device_state = IDLE)

\* C27 witness: the peer has just closed the connection and the detector, which
\* was there, is gone: it was not running and its start failed
C27_Witness ==
    /\ last = "remote_close"
    /\ wake_word_detector = "none"
    /\ ~keep_listening
    /\ main_tasks # <<>>
    /\ main_tasks[Len(main_tasks)] = SetStateTask(IDLE)

\* C28: when the wait for the open expires (future.result raises in
\* _start_listening_impl or in connect_and_listen) the waiter stops waiting,
\* IDLE is requested and no start-listening message is sent; and the coroutine
\* nobody waits for any more makes no connection the protocol's transport,
\* does not mark the channel connected, and its connection does not reach the
\* audio-channel-opened callback.
C28_TreatedAsFailed ==
    [][last' \in {"open_timeout", "toggle_open_timeout"} =>
         /\ main_tasks' = Append(main_tasks, SetStateTask(IDLE))
         /\ sends' = sends
         /\ keep_listening' = keep_listening
         /\ last' = "open_timeout" =>
              loop_pc = "open_wait" /\ loop_pc' # "open_wait"
         /\ last' = "toggle_open_timeout" =>
              Cardinality(workers') = Cardinality(workers) - 1]_vars

C28_AbandonedInert ==
    [][\A a \in conn_attempts :
         a.org = "nobody" =>
           /\ opened_cb'[a.id] = opened_cb[a.id]
           /\ websocket' = a.id => websocket = a.id
           /\ (connected' /\ websocket' = a.id) => connected]_vars

C28_WaitExpired ==
    /\ C28_TreatedAsFailed
    /\ C28_AbandonedInert

\* C29: a thread that is inside _reinitialize_stream holds the stream lock, and
\* the playback trigger thread is not inside _reinitialize_stream of the output
\* stream while the controller loop is inside output_stream.write.
C29_ReinitUnderLock ==
    /\ \A t \in {"main", "trigger"} :
         stream_pc[t] \in {"reinit_in", "reinit_out"} => stream_lock = t
    /\ ~(stream_pc["trigger"] = "reinit_out" /\ stream_pc["main"] = "write")

\* C30: once the AudioCodec is built, the capacity of its playback queue is
\* the ceiling of 10000 / FRAME_DURATION.
C30_CapacityIsCeiling ==
    stream_pc["main"] # "new" =>
      max_queue_size = (10000 + frame_duration - 1) \div frame_duration

\* C31: every step that writes the keep-listening flag, the aborted flag or the
\* device state is a step of the controller-loop thread: the loop is inside a
\* scheduled task, or inside a wait of one (for open_audio_channel, for the
\* playback queue to drain).
C31_SingleWriter ==
    [][(\/ keep_listening' # keep_listening
        \/ aborted' # aborted
        \/ device_state' # device_state) =>
         \/ loop_pc = "run" /\ tasks # <<>>
         \/ loop_pc \in {"open_wait", "drain"}]_vars

\* C32: the microphone is read, and a frame handed to the protocol, only by a
\* step of the controller loop that finds the device state LISTENING; a frame
\* is handed over only with the audio channel open, and the protocol sends a
\* frame only with the channel open.
C32_InputGated ==
    [][/\ last' \in {"audio_read", "audio_handed"} =>
            device_state = LISTENING /\ device_state' = LISTENING
       /\ audio_sends' > audio_sends =>
            last' = "audio_handed" /\ is_audio_channel_opened(S)
       /\ last' = "audio_sent" =>
            audio_sends' < audio_sends /\ is_audio_channel_opened(S)]_vars

\* C32 as stated: a captured frame is sent only while the device state is
\* LISTENING.
C32_Original == last = "audio_sent" => device_state = LISTENING

\* a frame handed over in LISTENING is sent with the device back in IDLE
C32_Witness ==
    /\ last = "audio_sent"
    /\ device_state = IDLE
    /\ is_audio_channel_opened(S)

\* C33: the device is never at rest (no task, thread, send, close or connect
\* pending, the loop waiting) in LISTENING with the audio channel closed.
C33_NoListeningOnClosedChannel ==
    (Settled(S) /\ device_state = LISTENING) => is_audio_channel_opened(S)

\* C34: whenever the device is at rest in IDLE (no task, thread, send, close or
\* connect pending, the loop waiting), a detector that is running is not
\* paused.
C34_IdleDetectorNotPaused ==
    (Settled(S) /\ device_state = IDLE /\ wake_word_detector = "running") =>
      ~wwd_paused

\* C35: a connect() that returned true because its wait for the server hello
\* ended has had a hello arrive on its own connection.
C35_OwnHandshake ==
    \A a \in conn_attempts :
      (a.res = "true" /\ a.how = "hello") => opened_cb[a.id] > 0

\* C36: a listen-start handler starts a connection attempt only when no request
\* for CONNECTING made by an earlier listen start is still waiting to be run:
\* of two listen starts enqueued before either is processed, the second starts
\* no connection attempt.
C36_OneConnectAttempt ==
    [][next_conn' > next_conn =>
         \A i \in DOMAIN (tasks \o main_tasks) :
           (tasks \o main_tasks)[i] # SetStateTask(CONNECTING)]_vars

\* C37: no task whose schedule() call has returned sees a third loop tick
\* begin before it is run; and while such a task waits in the list, the
\* schedule flag is set or the loop is between its check of the flag and its
\* copy of the list.
C37_NoLostWakeup ==
    \A t \in 1..MaxTasks :
      /\ sched_wait[t] # "3"
      /\ (sched_wait[t] \in {"0", "1", "2"} /\
          \E i \in DOMAIN main_tasks : main_tasks[i] = t) =>
           (sched_event \/ loop_pc \in {"clear", "copy"})

\* C37 witness: a task appended while the loop was between its clear of the
\* flag and the end of its pass is run in the following tick, with no
\* schedule() call under way
C37_Witness ==
    /\ loop_pc = "run"
    /\ tasks # <<>>
    /\ sched_wait[Head(tasks)] = "1"
    /\ \A p \in Producers : prod_pc[p] = "idle"

\* C38: with abort_speaking entered by the UI thread and by the controller loop
\* at any two moments, at most one process_abort thread is started (each
\* hands one abort message to the protocol loop).
C38_ConcurrentAbortOnce ==
    /\ ab.spawned <= 1
    /\ Cardinality({w \in workers : w.kind = "process_abort"}) <= 1

\* C39: while a tts start that the server sent is being taken up (its handler,
\* or the request for SPEAKING the handler made, is waiting to be run), with no
\* tts stop received after it and no abort, a binary message arriving on the
\* connection is written to the playback queue.
C39_FramesEnqueued ==
    LET pending == tasks \o main_tasks
        ops == {pending[i] : i \in DOMAIN pending}
    IN  ( /\ ops \cap {Task("handle_tts_start"), SetStateTask(SPEAKING)} # {}
          /\ ops \cap {Task("handle_tts_stop"),
                       Task("delayed_state_change")} = {}
          /\ ~aborted )
        => \A c \in LiveConns :
             message_handler(S, c, "binary").audio_decode_queue =
               write_audio(audio_decode_queue, 0)

\* ------------------------------------- toggle while speaking, then a tts stop
\* the chat button is pressed once while the device is SPEAKING
\* (toggle_chat_state on the UI thread), and not again
ToggleWhileSpeaking ==
    /\ device_state = SPEAKING
    /\ ab.calls = 0
    /\ \A i \in DOMAIN (tasks \o main_tasks) :
         (tasks \o main_tasks)[i] # Task("toggle_chat_state_impl")
    /\ UserToggle

\* one press of the chat button while the device is SPEAKING, the server's
\* tts stop messages, and the controller loop, the process_abort thread and
\* the protocol loop working off what these start
SpecToggleAbort ==
    /\ SpeakInit
    /\ [][\/ ToggleWhileSpeaking
          \/ ServerTtsStop
          \/ LoopTick
          \/ LoopSkipSchedule
          \/ LoopSkipOutput
          \/ RunToggleImpl
          \/ RunTtsStop
          \/ RunDelayedStateChange
          \/ DrainEnd
          \/ RunSetDeviceState
          \/ AbortSendDone
          \/ AbortSchedule
          \/ DoSend]_vars

\* C40: once abort_speaking has been called for the toggle pressed in SPEAKING
\* (reason NONE), and with no further request from the user or the wake word,
\* the device is never LISTENING, and it is IDLE when nothing is pending any
\* more; for both values of keep_listening and every interleaving with the
\* server's tts stop.
C40_ToggleAbortSettlesIdle ==
    ab.calls >= 1 =>
      /\ device_state # LISTENING
      /\ Settled(S) => device_state = IDLE

====
